---------------------------- MODULE Spec2Model ----------------------------
(***************************************************************************)
(* A model of the Amaron battery scraper (src/src/smartUrlScraper.js):     *)
(* the dependent-dropdown combination discovery, the field extraction run  *)
(* in the page, the deduplication of extracted records and the processing  *)
(* loop that writes them to the CSV sink.                                  *)
(*                                                                         *)
(* JavaScript strings are modelled as sequences of one-character strings,  *)
(* so that lower-casing, whitespace collapsing, trimming, substring tests  *)
(* and regular-expression replacements are computed as the code computes   *)
(* them.                                                                   *)
(***************************************************************************)
EXTENDS Integers, Sequences, FiniteSets, TLC

VARIABLES
  \* ---- deduplicateBatteries called on arbitrary batches
  seenBatteries,      \* this.seenBatteries: the set of identifiers seen
  dedupLog,           \* ghost: every record handed in, with its call and fate
  lastBatch,          \* ghost: the argument of the last call
  lastUnique,         \* the value the last call returned
  dedupCalls,         \* ghost: number of calls made
  \* ---- discoverValidCombinations
  form,               \* the dependent-dropdown form the site serves
  page,               \* the browser page: loaded or not, and the options selected
  dpc,                \* the await at which discoverValidCombinations stands
  vehicleTypes,       \* const vehicleTypes
  brands,             \* const brands (of the current vehicle type)
  models,             \* const models (of the current brand)
  vi, bi, mi,         \* positions of the three for-of loops
  validCombinations,  \* const validCombinations (the local list)
  thisValidCombinations, \* this.validCombinations
  faults,             \* ghost: page operations that have failed so far
  trace,              \* ghost: the page operations performed, in order
  \* ---- extractBatteryData
  epc,                \* idle, loaded (a page is shown), extracted
  extPage,            \* the document the page shows
  extCombination,     \* the combination handed to extractBatteryData
  extFails,           \* ghost: page.evaluate itself was rejected
  batteryData,        \* the value extractBatteryData returned
  \* ---- processValidCombinations
  ppc,                \* the point at which processValidCombinations stands
  scrapedCount,       \* this.scrapedCount
  processedCombinations,  \* this.processedCombinations
  successfulCombinations, \* this.successfulCombinations
  duplicateCount,     \* this.duplicateCount
  csvRows,            \* the records appended to the CSV file, in order
  yields,             \* ghost: what testBatteryPageUrl returned, per combination
  writeFailures,      \* ghost: number of appendBatteryRecord calls that threw
  recordCount,        \* csvExporter.recordCount
  pendingWrites,      \* writeRecords calls that timed out and have not landed
  appendLog,          \* ghost: every appendBatteryRecord call and how it ended
  gotoLog,            \* ghost: the page.goto calls made, per combination
  writeFaults,        \* ghost: write attempts that have failed or timed out
  writeOutcomes,      \* ghost: per appendBatteryRecord call, how its attempts end
  delayLog,           \* ghost: the delays awaited at the end of the loop body
  \* ---- createBatteryIdentifier applied to pairs of records
  keyRecords,         \* the two records handed to createBatteryIdentifier
  keys,               \* the two identifiers returned, <<>> before the calls
  \* ---- generateBatteryPageUrl and its urlify
  slugInput,          \* the text handed to urlify
  slugs,              \* urlify(text), then urlify of that, as far as applied
  urlCombination,     \* the combination handed to generateBatteryPageUrl
  url,                \* the URL returned, <<>> before the call
  \* ---- a run: main, scrape and the signal handler
  rpc,                \* the point at which main / scrape stands
  thisBrowser,        \* this.browser: "null", "open", or "closed"
  thisPage,           \* this.page: "null", "open", or "closed" (close begun)
  inFlight,           \* the page operations started and not yet settled
  hpc,                \* the point at which the signal handler stands
  summary,            \* the summary object of scrape
  scrapeError,        \* the message of the error scrape rethrows, "" if none
  exitCode,           \* the code given to process.exit, -1 before it
  combinationErrors,  \* ghost: the per-combination errors that occurred
  discoveryOps,       \* ghost: page operations discovery has made
  finalized,          \* ghost: finalizeCSV has been called
  probedAfterSignal,  \* ghost: a probe started after a signal was received
  displayed,          \* ghost: displayFinalSummary has been called
  exitBy,             \* ghost: who called process.exit, "" before it
  browserCloseCalled, \* ghost: browser.close() has been called
  \* ---- main up to the start of the scrape: the command line
  argv,               \* process.argv.slice(2)
  apc,                \* the point at which main stands
  parsedOptions,      \* the options parseArguments returned
  parseError,         \* the message of the error parseArguments threw, "" if none
  cliExitCode,        \* the code given to process.exit, -1 before it
  config,             \* the fields of config that applyConfigOverrides sets
  navLog,             \* ghost: the timeout of each page navigation made
  \* ---- the two scrapers applied to one combination and one page
  mpc,                \* the point at which the comparison stands
  modeCombination,    \* the combination handed to both scrapers
  modePage,           \* the page both scrapers have loaded
  modeLabelTag,       \* the element of the label cells of its rows: "th" or "td"
  smartUrl,           \* SmartUrlScraper.generateBatteryPageUrl(...)
  directUrl,          \* DirectUrlScraper.generateBatteryPageUrl(...)
  smartRecords,       \* SmartUrlScraper.extractBatteryData(combination)
  directRecords,      \* DirectUrlScraper.extractBatteryData(combination)
  \* ---- cleanData applied to one raw text
  cleanPc,            \* the point at which the application stands
  rawValue,           \* the text as it was extracted
  cleanedValue,       \* the field of the record cleanData returns
  \* ---- one call of executeWithRetry
  retryPc,            \* the point at which the call stands
  retryOptions,       \* maxRetries, retryDelay and backoffMultiplier of the call
  retryAttempt,       \* attempt, the loop variable
  fnLog,              \* ghost: how each call of fn ended
  retryDelays,        \* ghost: the delays awaited, in order
  retryResult,        \* what the call returned or threw
  \* ---- one call of waitForElement
  waitPc,             \* the point at which the call stands
  waitInput,          \* options.retries (0: not given) and the length of the selector list
  waitAttempt,        \* attempt, the loop variable
  altIndex,           \* the alternative selector the inner loop stands at
  waitLog,            \* ghost: every waitForSelector / page.$ pair and how it ended
  waitDelays,         \* ghost: the delays awaited, in order
  waitResult,         \* what the call returned or threw
  \* ---- the CSVExporter on its own (recordCount and csvRows are above)
  expPc,              \* the await at which a call of initializeCSV stands
  isInitialized,      \* this.isInitialized
  csvWriter,          \* this.csvWriter: "null" or "writer"
  filePath,           \* this.filePath: "null" or "path"
  initAttempt,        \* attempt, the loop variable of initializeCSV
  initCalls,          \* ghost: the calls of initializeCSV so far
  lastInit,           \* ghost: how the last call of initializeCSV ended
  everInitialized,    \* ghost: a call of initializeCSV has returned
  callLog             \* ghost: the calls of appendBatteryRecord and finalizeCSV

dedupVars == <<seenBatteries, dedupLog, lastBatch, lastUnique, dedupCalls>>

discVars == <<form, page, dpc, vehicleTypes, brands, models, vi, bi, mi,
              validCombinations, thisValidCombinations, faults, trace>>

extVars == <<epc, extPage, extCombination, extFails, batteryData>>

\* the variables of processValidCombinations but the rows of the file
procRest == <<ppc, scrapedCount, processedCombinations, successfulCombinations,
              duplicateCount, yields, writeFailures, recordCount,
              pendingWrites, appendLog, gotoLog, writeFaults, writeOutcomes,
              delayLog>>

procVars == <<procRest, csvRows>>

keyVars == <<keyRecords, keys>>

urlVars == <<slugInput, slugs, urlCombination, url>>

\* the ghost variables of a run
runGhosts == <<finalized, probedAfterSignal, displayed, exitBy, browserCloseCalled>>

runVars == <<rpc, thisBrowser, thisPage, inFlight, hpc, summary, scrapeError,
             exitCode, combinationErrors, discoveryOps, runGhosts>>

argVars == <<argv, apc, parsedOptions, parseError, cliExitCode, config, navLog>>

modeVars == <<mpc, modeCombination, modePage, modeLabelTag, smartUrl, directUrl, smartRecords,
              directRecords>>

cleanVars == <<cleanPc, rawValue, cleanedValue>>

retryVars == <<retryPc, retryOptions, retryAttempt, fnLog, retryDelays, retryResult>>

\* the variables of the helpers of the scraper and of the exporter
waitVars == <<waitPc, waitInput, waitAttempt, altIndex, waitLog, waitDelays, waitResult>>

exporterVars == <<expPc, isInitialized, csvWriter, filePath, initAttempt, initCalls,
                  lastInit, everInitialized, callLog>>

libVars == <<cleanVars, retryVars, waitVars, exporterVars>>

\* the variables of the specifications of single functions
fnVars == <<keyVars, urlVars, argVars, modeVars, libVars>>

\* the variables outside the helpers
coreVars == <<dedupVars, discVars, extVars, procVars, runVars, keyVars, urlVars, argVars,
              modeVars>>

vars == <<seenBatteries, dedupLog, lastBatch, lastUnique, dedupCalls,
          form, page, dpc, vehicleTypes, brands, models, vi, bi, mi,
          validCombinations, thisValidCombinations, faults, trace,
          epc, extPage, extCombination, extFails, batteryData,
          ppc, scrapedCount, processedCombinations, successfulCombinations,
          duplicateCount, csvRows, yields, writeFailures, recordCount,
          pendingWrites, appendLog, gotoLog, writeFaults, writeOutcomes, delayLog,
          keyRecords, keys, slugInput, slugs, urlCombination, url,
          rpc, thisBrowser, thisPage, inFlight, hpc, summary, scrapeError,
          exitCode, combinationErrors, discoveryOps,
          finalized, probedAfterSignal, displayed, exitBy, browserCloseCalled,
          argv, apc, parsedOptions, parseError, cliExitCode, config, navLog,
          mpc, modeCombination, modePage, modeLabelTag, smartUrl, directUrl, smartRecords,
          directRecords,
          cleanPc, rawValue, cleanedValue,
          retryPc, retryOptions, retryAttempt, fnLog, retryDelays, retryResult,
          waitPc, waitInput, waitAttempt, altIndex, waitLog, waitDelays, waitResult,
          expPc, isInitialized, csvWriter, filePath, initAttempt, initCalls, lastInit,
          everInitialized, callLog>>

(***************************************************************************)
(* Strings                                                                 *)
(***************************************************************************)
UpperLetters == <<"A", "B", "C", "D", "E", "F", "G", "H", "I", "J", "K", "L", "M",
                  "N", "O", "P", "Q", "R", "S", "T", "U", "V", "W", "X", "Y", "Z">>

LowerLetters == <<"a", "b", "c", "d", "e", "f", "g", "h", "i", "j", "k", "l", "m",
                  "n", "o", "p", "q", "r", "s", "t", "u", "v", "w", "x", "y", "z">>

Digits == {"0", "1", "2", "3", "4", "5", "6", "7", "8", "9"}

Range(f) == {f[i] : i \in DOMAIN f}

UpperSet == Range(UpperLetters)

LowerSet == Range(LowerLetters)

IsUpper(c) == c \in UpperSet

IsLower(c) == c \in LowerSet

IsDigit(c) == c \in Digits

\* \s of a JavaScript regular expression, over the characters the model uses
IsSpace(c) == c \in {" ", "\t", "\n"}

\* \w of a JavaScript regular expression
IsWordChar(c) == IsUpper(c) \/ IsLower(c) \/ IsDigit(c) \/ c = "_"

LowerOf ==
  [c \in UpperSet |->
     LowerLetters[CHOOSE i \in DOMAIN UpperLetters : UpperLetters[i] = c]]

UpperOf ==
  [c \in LowerSet |->
     UpperLetters[CHOOSE i \in DOMAIN LowerLetters : LowerLetters[i] = c]]

LowerChar(c) == IF IsUpper(c) THEN LowerOf[c] ELSE c

UpperChar(c) == IF IsLower(c) THEN UpperOf[c] ELSE c

\* String.prototype.toLowerCase
ToLowerCase(s) == [i \in 1..Len(s) |-> LowerChar(s[i])]

\* String.prototype.toUpperCase
ToUpperCase(s) == [i \in 1..Len(s) |-> UpperChar(s[i])]

RECURSIVE TrimStart(_)
TrimStart(s) ==
  IF s # <<>> /\ IsSpace(Head(s)) THEN TrimStart(Tail(s)) ELSE s

RECURSIVE TrimEnd(_)
TrimEnd(s) ==
  IF s # <<>> /\ IsSpace(s[Len(s)]) THEN TrimEnd(SubSeq(s, 1, Len(s) - 1)) ELSE s

\* String.prototype.trim
Trim(s) == TrimEnd(TrimStart(s))

\* s.replace(/\s+/g, ' '): every maximal run of whitespace becomes one space
RECURSIVE CollapseWhitespace(_)
CollapseWhitespace(s) ==
  IF s = <<>> THEN <<>>
  ELSE IF IsSpace(Head(s))
    THEN <<" ">> \o CollapseWhitespace(TrimStart(s))
    ELSE <<Head(s)>> \o CollapseWhitespace(Tail(s))

\* s.replace(/[^\w\s]/g, '')
IsWordOrSpace(c) == IsWordChar(c) \/ IsSpace(c)

RemoveSpecial(s) == SelectSeq(s, IsWordOrSpace)

\* String.prototype.includes
Includes(s, t) ==
  \E i \in 0..(Len(s) - Len(t)) : SubSeq(s, i + 1, i + Len(t)) = t

\* Array.prototype.join over strings
RECURSIVE Join(_, _)
Join(parts, sep) ==
  IF parts = <<>> THEN <<>>
  ELSE IF Len(parts) = 1 THEN Head(parts)
  ELSE Head(parts) \o sep \o Join(Tail(parts), sep)

IsNonEmpty(s) == s # <<>>

(***************************************************************************)
(* createBatteryIdentifier                                                 *)
(***************************************************************************)
\* the fields the identifier is built from, in keyFields order
KeyFieldNames == <<"itemCode", "batteryTitle", "voltage", "ampereHour",
                   "dimensions", "vehicleType", "brand", "model">>

NormalizeKeyField(field) ==
  RemoveSpecial(Trim(CollapseWhitespace(ToLowerCase(field))))

ItemCodePrefix == <<"i", "t", "e", "m", "c", "o", "d", "e", "_">>

\* an identifier that gives the item code no priority
createBatteryIdentifier_AllFields(battery) ==
  Join(SelectSeq([i \in DOMAIN KeyFieldNames |->
                    NormalizeKeyField(battery[KeyFieldNames[i]])], IsNonEmpty),
       <<"_">>)

\* an identifier in which the title follows the item code
createBatteryIdentifier_TitledCode(battery) ==
  IF battery["itemCode"] # <<>> /\ Trim(battery["itemCode"]) # <<>>
    THEN ItemCodePrefix \o NormalizeKeyField(battery["itemCode"])
           \o NormalizeKeyField(battery["batteryTitle"])
    ELSE createBatteryIdentifier_AllFields(battery)

createBatteryIdentifier(battery) ==
  LET keyFields == [i \in DOMAIN KeyFieldNames |-> battery[KeyFieldNames[i]]]
      normalizedFields == [i \in DOMAIN keyFields |-> NormalizeKeyField(keyFields[i])]
  IN  IF battery["itemCode"] # <<>> /\ Trim(battery["itemCode"]) # <<>>
        THEN ItemCodePrefix \o normalizedFields[1]
        ELSE Join(SelectSeq(normalizedFields, IsNonEmpty), <<"_">>)

(***************************************************************************)
(* generateBatteryPageUrl                                                  *)
(***************************************************************************)
\* .replace(/[^a-z0-9\s-]/g, '')
IsSlugOrSpace(c) == IsLower(c) \/ IsDigit(c) \/ IsSpace(c) \/ c = "-"

RemoveNonSlug(s) == SelectSeq(s, IsSlugOrSpace)

\* .replace(/\s+/g, '-'): every maximal run of whitespace becomes one hyphen
RECURSIVE SpacesToHyphens(_)
SpacesToHyphens(s) ==
  IF s = <<>> THEN <<>>
  ELSE IF IsSpace(Head(s))
    THEN <<"-">> \o SpacesToHyphens(TrimStart(s))
    ELSE <<Head(s)>> \o SpacesToHyphens(Tail(s))

\* .replace(/-+/g, '-'): every maximal run of hyphens becomes one hyphen
RECURSIVE CollapseHyphens(_)
CollapseHyphens(s) ==
  IF s = <<>> THEN <<>>
  ELSE IF Head(s) = "-" /\ Len(s) > 1 /\ s[2] = "-"
    THEN CollapseHyphens(Tail(s))
    ELSE <<Head(s)>> \o CollapseHyphens(Tail(s))

\* .replace(/^-|-$/g, ''): one hyphen at the start and one at the end go
StripEdgeHyphens(s) ==
  LET t == IF s # <<>> /\ Head(s) = "-" THEN Tail(s) ELSE s
  IN  IF t # <<>> /\ t[Len(t)] = "-" THEN SubSeq(t, 1, Len(t) - 1) ELSE t

\* a urlify that leaves the hyphens at the two ends
urlify_KeepEdges(text) ==
  CollapseHyphens(SpacesToHyphens(RemoveNonSlug(ToLowerCase(text))))

\* a urlify that strips the ends before it turns whitespace into hyphens
urlify_StripFirst(text) ==
  CollapseHyphens(SpacesToHyphens(StripEdgeHyphens(RemoveNonSlug(ToLowerCase(text)))))

\* const urlify = (text) => text.toLowerCase().replace(...)...
urlify(text) ==
  StripEdgeHyphens(CollapseHyphens(SpacesToHyphens(RemoveNonSlug(ToLowerCase(text)))))

\* 'https://www.amaron.com/battery/'
BatteryBaseUrl ==
  <<"h", "t", "t", "p", "s", ":", "/", "/", "w", "w", "w", ".", "a", "m",
  "a", "r", "o", "n", ".", "c", "o", "m", "/", "b", "a", "t", "t", "e",
  "r", "y", "/">>

\* a URL in which the brand comes before the vehicle type
generateBatteryPageUrl_BrandFirst(vehicleType, brand, model, fuelType) ==
  BatteryBaseUrl \o urlify(brand) \o <<"/">> \o urlify(vehicleType) \o <<"/">>
    \o urlify(model) \o <<"/">> \o urlify(fuelType)

generateBatteryPageUrl(vehicleType, brand, model, fuelType) ==
  BatteryBaseUrl \o urlify(vehicleType) \o <<"/">> \o urlify(brand) \o <<"/">>
    \o urlify(model) \o <<"/">> \o urlify(fuelType)

(***************************************************************************)
(* deduplicateBatteries                                                    *)
(***************************************************************************)
\* The loop of deduplicateBatteries from position i on. unique is the list
\* built so far, seen the seen-set, kept (ghost) the positions pushed.
RECURSIVE DedupLoop(_, _, _, _, _)
DedupLoop(batteries, i, seen, unique, kept) ==
  IF i > Len(batteries)
    THEN [unique |-> unique, seen |-> seen, kept |-> kept]
    ELSE LET identifier == createBatteryIdentifier(batteries[i])
         IN  IF identifier \in seen
               THEN DedupLoop(batteries, i + 1, seen, unique, kept)
               ELSE DedupLoop(batteries, i + 1, seen \cup {identifier},
                              Append(unique, batteries[i]), kept \cup {i})

\* a deduplication that forgets what earlier calls saw
deduplicateBatteries_BatchLocal(batteries, seen) ==
  LET r == DedupLoop(batteries, 1, {}, <<>>, {})
  IN  [r EXCEPT !.seen = seen \cup r.seen]

deduplicateBatteries(batteries, seen) == DedupLoop(batteries, 1, seen, <<>>, {})

(***************************************************************************)
(* The function extractBatteryData evaluates in the page                   *)
(*                                                                         *)
(* A loaded page is modelled by what the function reads of the document:   *)
(*   text          text of the body outside the elements below             *)
(*   rows          the tr elements, in document order: the text of the     *)
(*                 label cell, the text of the last td, and whether the    *)
(*                 row has a td at all                                     *)
(*   titleCells    the td of table.comparisionTable, each a list of lines  *)
(*   priceElements the .proPriceInfo elements: className and text          *)
(*   terminalImg   the src of the terminal layout image, <<>> when absent  *)
(***************************************************************************)
\* 'Item Code', 'Model Code', 'Product Code', 'Battery Code', 'Part Number', 'SKU'
ItemCodeLabels ==
  << <<"I", "t", "e", "m", " ", "C", "o", "d", "e">>,
     <<"M", "o", "d", "e", "l", " ", "C", "o", "d", "e">>,
     <<"P", "r", "o", "d", "u", "c", "t", " ", "C", "o", "d", "e">>,
     <<"B", "a", "t", "t", "e", "r", "y", " ", "C", "o", "d", "e">>,
     <<"P", "a", "r", "t", " ", "N", "u", "m", "b", "e", "r">>,
     <<"S", "K", "U">> >>

\* 'Series', 'Battery Series', 'Product Series'
SeriesLabels ==
  << <<"S", "e", "r", "i", "e", "s">>,
     <<"B", "a", "t", "t", "e", "r", "y", " ", "S", "e", "r", "i", "e",
       "s">>,
     <<"P", "r", "o", "d", "u", "c", "t", " ", "S", "e", "r", "i", "e",
       "s">> >>

\* 'Model', 'Battery Model', 'Product Model'
BatteryModelLabels ==
  << <<"M", "o", "d", "e", "l">>,
     <<"B", "a", "t", "t", "e", "r", "y", " ", "M", "o", "d", "e", "l">>,
     <<"P", "r", "o", "d", "u", "c", "t", " ", "M", "o", "d", "e", "l">> >>

\* 'Voltage (V)', 'Voltage', 'Nominal Voltage'
VoltageLabels ==
  << <<"V", "o", "l", "t", "a", "g", "e", " ", "(", "V", ")">>,
     <<"V", "o", "l", "t", "a", "g", "e">>,
     <<"N", "o", "m", "i", "n", "a", "l", " ", "V", "o", "l", "t", "a",
       "g", "e">> >>

\* 'Ref. Amphere Hour (AH)', 'Ampere Hour', 'AH', 'Capacity (AH)', 'Amp Hour'
AmpereHourLabels ==
  << <<"R", "e", "f", ".", " ", "A", "m", "p", "h", "e", "r", "e", " ",
       "H", "o", "u", "r", " ", "(", "A", "H", ")">>,
     <<"A", "m", "p", "e", "r", "e", " ", "H", "o", "u", "r">>,
     <<"A", "H">>,
     <<"C", "a", "p", "a", "c", "i", "t", "y", " ", "(", "A", "H", ")">>,
     <<"A", "m", "p", " ", "H", "o", "u", "r">> >>

\* 'Cold Cranking Ability (CCA)', 'CCA', 'Cold Cranking Amps', 'Cranking Amps'
CcaLabels ==
  << <<"C", "o", "l", "d", " ", "C", "r", "a", "n", "k", "i", "n", "g",
       " ", "A", "b", "i", "l", "i", "t", "y", " ", "(", "C", "C", "A",
       ")">>,
     <<"C", "C", "A">>,
     <<"C", "o", "l", "d", " ", "C", "r", "a", "n", "k", "i", "n", "g",
       " ", "A", "m", "p", "s">>,
     <<"C", "r", "a", "n", "k", "i", "n", "g", " ", "A", "m", "p", "s">> >>

\* 'Product Dimensions (LxBxH) (mm)', 'Dimensions (L x W x H)', 'Dimensions', 'Size', 'Battery Dimensions'
DimensionsLabels ==
  << <<"P", "r", "o", "d", "u", "c", "t", " ", "D", "i", "m", "e", "n",
       "s", "i", "o", "n", "s", " ", "(", "L", "x", "B", "x", "H", ")",
       " ", "(", "m", "m", ")">>,
     <<"D", "i", "m", "e", "n", "s", "i", "o", "n", "s", " ", "(", "L",
       " ", "x", " ", "W", " ", "x", " ", "H", ")">>,
     <<"D", "i", "m", "e", "n", "s", "i", "o", "n", "s">>,
     <<"S", "i", "z", "e">>,
     <<"B", "a", "t", "t", "e", "r", "y", " ", "D", "i", "m", "e", "n",
       "s", "i", "o", "n", "s">> >>

\* 'Product Dimensions', 'Overall Dimensions', 'External Dimensions'
ProductDimensionsLabels ==
  << <<"P", "r", "o", "d", "u", "c", "t", " ", "D", "i", "m", "e", "n",
       "s", "i", "o", "n", "s">>,
     <<"O", "v", "e", "r", "a", "l", "l", " ", "D", "i", "m", "e", "n",
       "s", "i", "o", "n", "s">>,
     <<"E", "x", "t", "e", "r", "n", "a", "l", " ", "D", "i", "m", "e",
       "n", "s", "i", "o", "n", "s">> >>

\* 'Total Warranty (Months)', 'Total Warranty', 'Warranty Period'
TotalWarrantyLabels ==
  << <<"T", "o", "t", "a", "l", " ", "W", "a", "r", "r", "a", "n", "t",
       "y", " ", "(", "M", "o", "n", "t", "h", "s", ")">>,
     <<"T", "o", "t", "a", "l", " ", "W", "a", "r", "r", "a", "n", "t",
       "y">>,
     <<"W", "a", "r", "r", "a", "n", "t", "y", " ", "P", "e", "r", "i",
       "o", "d">> >>

\* 'Free Warranty (Months)', 'Free Warranty', 'Free Service Period'
FreeWarrantyLabels ==
  << <<"F", "r", "e", "e", " ", "W", "a", "r", "r", "a", "n", "t", "y",
       " ", "(", "M", "o", "n", "t", "h", "s", ")">>,
     <<"F", "r", "e", "e", " ", "W", "a", "r", "r", "a", "n", "t", "y">>,
     <<"F", "r", "e", "e", " ", "S", "e", "r", "v", "i", "c", "e", " ",
       "P", "e", "r", "i", "o", "d">> >>

\* 'Pro-rata Warranty (Months)', 'Pro-rata Warranty', 'Prorata Warranty'
ProRataWarrantyLabels ==
  << <<"P", "r", "o", "-", "r", "a", "t", "a", " ", "W", "a", "r", "r",
       "a", "n", "t", "y", " ", "(", "M", "o", "n", "t", "h", "s", ")">>,
     <<"P", "r", "o", "-", "r", "a", "t", "a", " ", "W", "a", "r", "r",
       "a", "n", "t", "y">>,
     <<"P", "r", "o", "r", "a", "t", "a", " ", "W", "a", "r", "r", "a",
       "n", "t", "y">> >>

\* 'Country of Origin', 'Made in', 'Origin'
CountryOfOriginLabels ==
  << <<"C", "o", "u", "n", "t", "r", "y", " ", "o", "f", " ", "O", "r",
       "i", "g", "i", "n">>,
     <<"M", "a", "d", "e", " ", "i", "n">>,
     <<"O", "r", "i", "g", "i", "n">> >>

\* 'Base Price (Inclusive of GST)', 'Base Price', 'Original Price', 'MRP'
BasePriceLabels ==
  << <<"B", "a", "s", "e", " ", "P", "r", "i", "c", "e", " ", "(", "I",
       "n", "c", "l", "u", "s", "i", "v", "e", " ", "o", "f", " ", "G",
       "S", "T", ")">>,
     <<"B", "a", "s", "e", " ", "P", "r", "i", "c", "e">>,
     <<"O", "r", "i", "g", "i", "n", "a", "l", " ", "P", "r", "i", "c",
       "e">>,
     <<"M", "R", "P">> >>

\* 'Special Discount (Till 18th Sep)', 'Special Discount', 'Discount', 'Offer Price'
SpecialDiscountLabels ==
  << <<"S", "p", "e", "c", "i", "a", "l", " ", "D", "i", "s", "c", "o",
       "u", "n", "t", " ", "(", "T", "i", "l", "l", " ", "1", "8", "t",
       "h", " ", "S", "e", "p", ")">>,
     <<"S", "p", "e", "c", "i", "a", "l", " ", "D", "i", "s", "c", "o",
       "u", "n", "t">>,
     <<"D", "i", "s", "c", "o", "u", "n", "t">>,
     <<"O", "f", "f", "e", "r", " ", "P", "r", "i", "c", "e">> >>

\* 'Total Price (Inclusive of GST)', 'Total Price', 'Final Price', 'Selling Price'
TotalPriceLabels ==
  << <<"T", "o", "t", "a", "l", " ", "P", "r", "i", "c", "e", " ", "(",
       "I", "n", "c", "l", "u", "s", "i", "v", "e", " ", "o", "f", " ",
       "G", "S", "T", ")">>,
     <<"T", "o", "t", "a", "l", " ", "P", "r", "i", "c", "e">>,
     <<"F", "i", "n", "a", "l", " ", "P", "r", "i", "c", "e">>,
     <<"S", "e", "l", "l", "i", "n", "g", " ", "P", "r", "i", "c", "e">> >>

\* 'Rebate on Return of old battery', 'Rebate', 'Exchange Value', 'Old Battery Value'
RebateLabels ==
  << <<"R", "e", "b", "a", "t", "e", " ", "o", "n", " ", "R", "e", "t",
       "u", "r", "n", " ", "o", "f", " ", "o", "l", "d", " ", "b", "a",
       "t", "t", "e", "r", "y">>,
     <<"R", "e", "b", "a", "t", "e">>,
     <<"E", "x", "c", "h", "a", "n", "g", "e", " ", "V", "a", "l", "u",
       "e">>,
     <<"O", "l", "d", " ", "B", "a", "t", "t", "e", "r", "y", " ", "V",
       "a", "l", "u", "e">> >>

MarkerVoltage == <<"v", "o", "l", "t", "a", "g", "e">>

MarkerAmpere == <<"a", "m", "p", "e", "r", "e">>

MarkerWarranty == <<"w", "a", "r", "r", "a", "n", "t", "y">>

MarkerBattery == <<"b", "a", "t", "t", "e", "r", "y">>

MarkerAmaron == <<"a", "m", "a", "r", "o", "n">>

TitleAmaron == <<"A", "M", "A", "R", "O", "N">>

TitleAutomotiveBattery == <<"A", "u", "t", "o", "m", "o", "t", "i", "v",
                            "e", " ", "B", "a", "t", "t", "e", "r", "y">>

TitleCodeOpen == <<"(", "A", "A", "M", "-">>

ClassBase == <<"s", "-", "b", "o", "l", "d", " ", "f", "o", "n", "t",
               "-", "1", "5">>

ClassTotal == <<"b", "o", "l", "d", "-", "f", "o", "n", "t", " ", "f",
                "o", "n", "t", "-", "1", "8">>

ClassPlain == <<"p", "r", "o", "P", "r", "i", "c", "e", "I", "n", "f",
                "o">>

WordRebate == <<"r", "e", "b", "a", "t", "e">>

TitlePrefix == <<"A", "M", "A", "R", "O", "N", " ">>

TitleMiddle == <<" ", "A", "u", "t", "o", "m", "o", "t", "i", "v", "e",
                 " ", "B", "a", "t", "t", "e", "r", "y", " ", "-", " ">>

BrandAmaron == <<"A", "m", "a", "r", "o", "n">>

Rupee == "₹"

Newline == <<"\n">>

\* tr.textContent
RowText(row) == row.label \o Newline \o row.value

CellText(cell) == Join(cell, Newline)

RECURSIVE JoinAll(_)
JoinAll(parts) ==
  IF parts = <<>> THEN <<>> ELSE Head(parts) \o Newline \o JoinAll(Tail(parts))

\* document.body.textContent
BodyText(pg) ==
  pg.text \o Newline
    \o JoinAll([i \in 1..Len(pg.titleCells) |-> CellText(pg.titleCells[i])])
    \o JoinAll([i \in 1..Len(pg.rows) |-> RowText(pg.rows[i])])
    \o JoinAll([i \in 1..Len(pg.priceElements) |-> pg.priceElements[i].text])

\* the tr holding a cell of the comparison table
TitleRow(cell) == [label |-> <<>>, value |-> CellText(cell), hasTd |-> TRUE]

\* document.querySelectorAll('tr'), in document order
AllRows(pg) ==
  [i \in 1..Len(pg.titleCells) |-> TitleRow(pg.titleCells[i])] \o pg.rows

\* a gate that lets every page through
HasBatteryData_Always(pageText) == TRUE

\* const hasBatteryData = pageText.includes('voltage') || ...
HasBatteryData(pageText) ==
  \/ Includes(pageText, MarkerVoltage)
  \/ Includes(pageText, MarkerAmpere)
  \/ Includes(pageText, MarkerWarranty)
  \/ Includes(pageText, MarkerBattery)
  \/ Includes(pageText, MarkerAmaron)

Min(S) == CHOOSE x \in S : \A y \in S : x <= y

\* extractTableData(searchTexts), from the i-th search text on
RECURSIVE ExtractTableDataFrom(_, _, _)
ExtractTableDataFrom(rows, searchTexts, i) ==
  IF i > Len(searchTexts) THEN <<>>
  ELSE LET found == {k \in 1..Len(rows) :
                       Includes(ToLowerCase(RowText(rows[k])), ToLowerCase(searchTexts[i]))}
       IN  IF found # {} /\ rows[Min(found)].hasTd
             THEN Trim(rows[Min(found)].value)
             ELSE ExtractTableDataFrom(rows, searchTexts, i + 1)

extractTableData(rows, searchTexts) == ExtractTableDataFrom(rows, searchTexts, 1)

\* the length of the longest run of digits and commas at the head of s
RECURSIVE AmountLen(_)
AmountLen(s) ==
  IF s # <<>> /\ (IsDigit(Head(s)) \/ Head(s) = ",") THEN 1 + AmountLen(Tail(s)) ELSE 0

\* extractPrice: text.match(/₹[\d,]+(?:\.\d{2})?/), the match or ''
RECURSIVE extractPrice(_)
extractPrice(text) ==
  IF text = <<>> THEN <<>>
  ELSE IF Head(text) = Rupee /\ AmountLen(Tail(text)) > 0
    THEN LET n == AmountLen(Tail(text))
             rest == SubSeq(text, n + 2, Len(text))
         IN  IF Len(rest) >= 3 /\ rest[1] = "." /\ IsDigit(rest[2]) /\ IsDigit(rest[3])
               THEN SubSeq(text, 1, n + 4)
               ELSE SubSeq(text, 1, n + 1)
    ELSE extractPrice(Tail(text))

IsTitleText(text) ==
  /\ Includes(text, TitleAmaron)
  /\ Includes(text, TitleAutomotiveBattery)
  /\ Includes(text, TitleCodeOpen)

\* the first line of a cell that is a title line, '' when it has none
TitleLineOf(cell) ==
  LET lines == SelectSeq([i \in 1..Len(cell) |-> Trim(cell[i])], IsNonEmpty)
      hits == {i \in 1..Len(lines) : IsTitleText(lines[i])}
  IN  IF hits = {} THEN <<>> ELSE lines[Min(hits)]

\* the loop over table.comparisionTable td that sets battery.batteryTitle
RECURSIVE ExtractTitleFrom(_, _)
ExtractTitleFrom(cells, i) ==
  IF i > Len(cells) THEN <<>>
  ELSE IF IsTitleText(Trim(CellText(cells[i]))) /\ TitleLineOf(cells[i]) # <<>>
    THEN TitleLineOf(cells[i])
    ELSE ExtractTitleFrom(cells, i + 1)

\* priceElements.forEach(...): the three prices after elements i.. are seen
RECURSIVE PriceFallbackFrom(_, _, _)
PriceFallbackFrom(elements, i, prices) ==
  IF i > Len(elements) THEN prices
  ELSE LET text == Trim(elements[i].text)
           className == elements[i].className
           hasRupee == Includes(text, <<Rupee>>)
       IN  PriceFallbackFrom(elements, i + 1,
             IF Includes(className, ClassBase) /\ hasRupee
               THEN [prices EXCEPT !.basePrice = extractPrice(text)]
             ELSE IF Includes(className, ClassTotal) /\ hasRupee
               THEN [prices EXCEPT !.totalPrice = extractPrice(text)]
             ELSE IF className = ClassPlain /\ hasRupee /\ ~Includes(text, WordRebate)
               THEN [prices EXCEPT !.specialDiscount = extractPrice(text)]
             ELSE prices)

\* cleanValue.replace(/^[-:]\s*/, '')
StripLeadingSeparator(s) ==
  IF s # <<>> /\ Head(s) \in {"-", ":"} THEN TrimStart(Tail(s)) ELSE s

\* cleanValue.replace(/\s*[-:]\s*$/, '')
StripTrailingSeparator(s) ==
  LET t == TrimEnd(s)
  IN  IF t # <<>> /\ t[Len(t)] \in {"-", ":"}
        THEN TrimEnd(SubSeq(t, 1, Len(t) - 1))
        ELSE s

CleanValue(value) ==
  StripTrailingSeparator(StripLeadingSeparator(Trim(CollapseWhitespace(Trim(value)))))

\* cleanData(obj): every field of the record is a string
cleanData(obj) == [key \in DOMAIN obj |-> CleanValue(obj[key])]

\* a check that accepts every record
HasValidData_Always(cleanedBattery) == TRUE

\* const hasValidData = cleanedBattery.voltage || ... || cleanedBattery.dimensions
HasValidData(cleanedBattery) ==
  \/ cleanedBattery.voltage # <<>>
  \/ cleanedBattery.ampereHour # <<>>
  \/ cleanedBattery.totalWarranty # <<>>
  \/ cleanedBattery.itemCode # <<>>
  \/ cleanedBattery.batteryTitle # <<>>
  \/ cleanedBattery.dimensions # <<>>

\* The callback of page.evaluate. threw: the callback raised an error.
\* Where the rebate row is missing the callback reads priceText, a name that
\* is declared nowhere, which raises a ReferenceError.
EvaluateExtraction(pg, combo) ==
  IF ~HasBatteryData(ToLowerCase(BodyText(pg)))
    THEN [threw |-> FALSE, batteries |-> <<>>]
    ELSE
      LET rows == AllRows(pg)
          title0 == ExtractTitleFrom(pg.titleCells, 1)
          itemCode == extractTableData(rows, ItemCodeLabels)
          series == extractTableData(rows, SeriesLabels)
          model0 == extractTableData(rows, BatteryModelLabels)
          voltage == extractTableData(rows, VoltageLabels)
          ampereHour == extractTableData(rows, AmpereHourLabels)
          cca == extractTableData(rows, CcaLabels)
          dimensions0 == extractTableData(rows, DimensionsLabels)
          productDimensions == extractTableData(rows, ProductDimensionsLabels)
          dimensions == IF dimensions0 = <<>> /\ productDimensions # <<>>
                          THEN productDimensions ELSE dimensions0
          tablePrices ==
            [basePrice |-> extractTableData(rows, BasePriceLabels),
             specialDiscount |-> extractTableData(rows, SpecialDiscountLabels),
             totalPrice |-> extractTableData(rows, TotalPriceLabels)]
          prices ==
            IF \/ tablePrices.basePrice = <<>>
               \/ tablePrices.specialDiscount = <<>>
               \/ tablePrices.totalPrice = <<>>
              THEN PriceFallbackFrom(pg.priceElements, 1, tablePrices)
              ELSE tablePrices
          rebate == extractTableData(rows, RebateLabels)
      IN  IF rebate = <<>>
            THEN [threw |-> TRUE, batteries |-> <<>>]
            ELSE
              LET batteryModel ==
                    IF model0 # <<>> THEN model0
                    ELSE IF voltage # <<>> /\ ampereHour # <<>>
                      THEN voltage \o <<"V", " ">> \o ampereHour \o <<"A", "H">>
                    ELSE IF title0 # <<>> THEN title0
                    ELSE IF itemCode # <<>> THEN itemCode
                    ELSE <<>>
                  batteryTitle ==
                    IF title0 # <<>> THEN title0
                    ELSE IF series # <<>> /\ batteryModel # <<>> /\ itemCode # <<>>
                      THEN TitlePrefix \o ToUpperCase(series) \o TitleMiddle
                             \o batteryModel \o <<" ", "(">> \o itemCode \o <<")">>
                    ELSE <<>>
                  battery ==
                    [vehicleType |-> combo.vehicleType,
                     brand |-> combo.brand,
                     model |-> combo.model,
                     fuelType |-> combo.fuelType,
                     batteryBrand |-> BrandAmaron,
                     series |-> series,
                     itemCode |-> itemCode,
                     batteryModel |-> batteryModel,
                     batteryTitle |-> batteryTitle,
                     dimensions |-> dimensions,
                     voltage |-> voltage,
                     ampereHour |-> ampereHour,
                     cca |-> cca,
                     totalWarranty |-> extractTableData(rows, TotalWarrantyLabels),
                     freeWarranty |-> extractTableData(rows, FreeWarrantyLabels),
                     proRataWarranty |-> extractTableData(rows, ProRataWarrantyLabels),
                     terminalLayoutImageUrl |-> pg.terminalImg,
                     countryOfOrigin |-> extractTableData(rows, CountryOfOriginLabels),
                     basePrice |-> prices.basePrice,
                     specialDiscount |-> prices.specialDiscount,
                     totalPrice |-> prices.totalPrice,
                     rebate |-> rebate,
                     productDimensions |-> productDimensions]
                  cleanedBattery == cleanData(battery)
              IN  [threw |-> FALSE,
                   batteries |-> IF HasValidData(cleanedBattery)
                                   THEN <<cleanedBattery>> ELSE <<>>]

\* extractBatteryData(combination): page.evaluate inside try / catch.
\* fails: the evaluation itself is rejected (page closed, navigation).
extractBatteryData(pg, combo, fails) ==
  IF fails THEN <<>>
  ELSE LET evaluated == EvaluateExtraction(pg, combo)
       IN  IF evaluated.threw THEN <<>> ELSE evaluated.batteries

(***************************************************************************)
(* Pages and combinations the extraction is applied to                     *)
(***************************************************************************)
MaxRows == 2

\* Voltage (V) | '12'
VoltageRow ==
  [label |-> <<"V", "o", "l", "t", "a", "g", "e", " ", "(", "V", ")">>,
   value |-> <<"1", "2">>,
   hasTd |-> TRUE]

\* Ref. Amphere Hour (AH) | '35'
AmpereHourRow ==
  [label |-> <<"R", "e", "f", ".", " ", "A", "m", "p", "h", "e", "r", "e",
             " ", "H", "o", "u", "r", " ", "(", "A", "H", ")">>,
   value |-> <<"3", "5">>,
   hasTd |-> TRUE]

\* Exchange Value | '₹500'
ExchangeValueRow ==
  [label |-> <<"E", "x", "c", "h", "a", "n", "g", "e", " ", "V", "a", "l",
             "u", "e">>,
   value |-> <<"₹", "5", "0", "0">>,
   hasTd |-> TRUE]

\* Size | '10 x 20'
SizeRow ==
  [label |-> <<"S", "i", "z", "e">>,
   value |-> <<"1", "0", " ", "x", " ", "2", "0">>,
   hasTd |-> TRUE]

\* SKU | ' - '
SkuRow ==
  [label |-> <<"S", "K", "U">>,
   value |-> <<" ", "-", " ">>,
   hasTd |-> TRUE]

\* Total Warranty (Months) | '48'
WarrantyRow ==
  [label |-> <<"T", "o", "t", "a", "l", " ", "W", "a", "r", "r", "a", "n",
             "t", "y", " ", "(", "M", "o", "n", "t", "h", "s", ")">>,
   value |-> <<"4", "8">>,
   hasTd |-> TRUE]

\* Voltage | '' (a row of th cells only)
VoltageHeaderRow ==
  [label |-> <<"V", "o", "l", "t", "a", "g", "e">>,
   value |-> <<>>,
   hasTd |-> FALSE]

RowPool ==
  {VoltageRow, AmpereHourRow, ExchangeValueRow, SizeRow,
   SkuRow, WarrantyRow, VoltageHeaderRow}

\* the sequences of at most MaxRows different rows of the pool
RowSeqs ==
  {rs \in UNION {[1..n -> RowPool] : n \in 0..MaxRows} :
     \A i, j \in DOMAIN rs : i # j => rs[i] # rs[j]}

\* 'Oops': a text with none of the marker tokens
PlainText == <<"O", "o", "p", "s">>

\* 'Amaron'
BrandText == <<"A", "m", "a", "r", "o", "n">>

\* a comparison cell holding a title line and a second line
TitleCell ==
  << <<"A", "M", "A", "R", "O", "N", " ", "F", "L", "O", " ", "A", "u",
     "t", "o", "m", "o", "t", "i", "v", "e", " ", "B", "a", "t", "t", "e",
     "r", "y", " ", "-", " ", "X", " ", "(", "A", "A", "M", "-", "1",
     ")">>,
     <<"I", "n", " ", "s", "t", "o", "c", "k">> >>

PriceElements ==
  << [className |-> <<"s", "-", "b", "o", "l", "d", " ", "f", "o", "n",
                    "t", "-", "1", "5", " ", "p", "r", "o", "P", "r", "i",
                    "c", "e", "I", "n", "f", "o">>,
      text |-> <<"₹", "5", ",", "0", "0", "0", ".", "0", "0">>],
     [className |-> <<"p", "r", "o", "P", "r", "i", "c", "e", "I", "n", "f", "o">>,
      text |-> <<"₹", "5", "0", "0">>],
     [className |-> <<"b", "o", "l", "d", "-", "f", "o", "n", "t", " ",
                    "f", "o", "n", "t", "-", "1", "8", " ", "p", "r", "o",
                    "P", "r", "i", "c", "e", "I", "n", "f", "o">>,
      text |-> <<"₹", "4", ",", "5", "0", "0">>] >>

TerminalImgSrc == <<"t", ".", "p", "n", "g">>

Pages ==
  [text : {PlainText, BrandText},
   rows : RowSeqs,
   titleCells : {<<>>, <<TitleCell>>},
   priceElements : {<<>>, PriceElements},
   terminalImg : {<<>>, TerminalImgSrc}]

NoPage ==
  [text |-> <<>>, rows |-> <<>>, titleCells |-> <<>>, priceElements |-> <<>>,
   terminalImg |-> <<>>]

\* Passengers / ASHOK LEYLAND / Stile / Diesel
StileDiesel ==
  [vehicleType |-> <<"P", "a", "s", "s", "e", "n", "g", "e", "r", "s">>,
   brand |-> <<"A", "S", "H", "O", "K", " ", "L", "E", "Y", "L", "A", "N", "D">>,
   model |-> <<"S", "t", "i", "l", "e">>,
   fuelType |-> <<"D", "i", "e", "s", "e", "l">>]

\* Two Wheelers / BAJAJ / Pulsar / Petrol
PulsarPetrol ==
  [vehicleType |-> <<"T", "w", "o", " ", "W", "h", "e", "e", "l", "e", "r", "s">>,
   brand |-> <<"B", "A", "J", "A", "J">>,
   model |-> <<"P", "u", "l", "s", "a", "r">>,
   fuelType |-> <<"P", "e", "t", "r", "o", "l">>]

Combinations == {StileDiesel, PulsarPetrol}

NoCombination ==
  [vehicleType |-> <<>>, brand |-> <<>>, model |-> <<>>, fuelType |-> <<>>]

ExtractIdle ==
  /\ epc = "idle"
  /\ extPage = NoPage
  /\ extCombination = NoCombination
  /\ extFails = FALSE
  /\ batteryData = <<>>

\* page.goto(url) has loaded a page for a combination. The extraction reads
\* nothing but the page and the combination, so one page per behaviour.
LoadPage ==
  /\ epc = "idle"
  /\ \E pg \in Pages, combo \in Combinations :
       /\ extPage' = pg
       /\ extCombination' = combo
  /\ epc' = "loaded"
  /\ batteryData' = <<>>
  /\ extFails' = FALSE
  /\ UNCHANGED <<dedupVars, discVars, procVars, runVars, fnVars>>

\* const batteryData = await this.extractBatteryData(combination)
ExtractBatteryData ==
  /\ epc = "loaded"
  /\ \E fails \in BOOLEAN :
       /\ extFails' = fails
       /\ batteryData' = extractBatteryData(extPage, extCombination, fails)
  /\ epc' = "extracted"
  /\ UNCHANGED <<extPage, extCombination>>
  /\ UNCHANGED <<dedupVars, discVars, procVars, runVars, fnVars>>

NextExtract == LoadPage \/ ExtractBatteryData


(***************************************************************************)
(* The site's form: four dependent dropdowns (vehicle type, brand, model,  *)
(* fuel). An option is {value, text}; the options of a dropdown depend on  *)
(* the options selected in the dropdowns before it.                        *)
(***************************************************************************)
MaxOptions == 2

MaxBranches == 4

MaxFaults == 1

Max(a, b) == IF a >= b THEN a ELSE b

\* A form is given by the number of options at each level; in a restricted
\* form the last option of every level offers one option fewer below it
\* (a model that supports a single fuel type, a brand without models).
\* MaxOptions bounds the options of a dropdown, MaxBranches the number of
\* vehicle type / brand / model branches of a form.
Forms ==
  {f \in [n : (0..MaxOptions) \X (0..MaxOptions) \X (0..MaxOptions) \X (0..MaxOptions),
          restricted : BOOLEAN] :
     f.n[1] * f.n[2] * f.n[3] <= MaxBranches}

\* how many options the dropdown below the selections `path` offers
ChildCount(f, path) ==
  LET level == Len(path) + 1
      base == f.n[level]
  IN  IF f.restricted /\ path # <<>> /\ path[Len(path)] = f.n[Len(path)]
        THEN Max(base - 1, 0)
        ELSE base

\* the display label of the option reached by `path`: fuel labels repeat
\* from model to model, the other labels are unique
RECURSIVE TextOf(_)
TextOf(path) ==
  IF Len(path) = 4 THEN path[4]
  ELSE IF Len(path) = 1 THEN path[1]
  ELSE 10 * TextOf(SubSeq(path, 1, Len(path) - 1)) + path[Len(path)]

OptionsBelow(f, path) ==
  [i \in 1..ChildCount(f, path) |->
     [value |-> Append(path, i), text |-> TextOf(Append(path, i))]]

\* what dropdown.options holds for the dropdown of `level` in page state pg
PageOptions(f, pg, level) ==
  IF pg.loaded /\ Len(pg.sel) >= level - 1
    THEN OptionsBelow(f, SubSeq(pg.sel, 1, level - 1))
    ELSE <<>>

\* page.select(selector, value) on the dropdown of `level`, followed by the
\* reload of the dropdowns that depend on it
PageSelect(f, pg, level, value) ==
  IF \E i \in DOMAIN PageOptions(f, pg, level) : PageOptions(f, pg, level)[i].value = value
    THEN [pg EXCEPT !.sel = value]
    ELSE IF Len(pg.sel) >= level
      THEN [pg EXCEPT !.sel = SubSeq(pg.sel, 1, level - 1)]
      ELSE pg

BlankPage == [loaded |-> FALSE, sel |-> <<>>]

LandingPage == [loaded |-> TRUE, sel |-> <<>>]

(***************************************************************************)
(* navigateToMainPage, getDropdownOptions, selectDropdownOption            *)
(* `fails` says whether the page operation inside rejects.                 *)
(***************************************************************************)
\* a navigation whose error is logged and not rethrown
navigateToMainPage_Swallow(pg, fails) ==
  IF fails THEN [threw |-> FALSE, page |-> pg]
           ELSE [threw |-> FALSE, page |-> LandingPage]

navigateToMainPage(pg, fails) ==
  IF fails THEN [threw |-> TRUE, page |-> pg]
           ELSE [threw |-> FALSE, page |-> LandingPage]

getDropdownOptions(f, pg, level, fails) ==
  IF fails THEN [threw |-> FALSE, options |-> <<>>]
           ELSE [threw |-> FALSE, options |-> PageOptions(f, pg, level)]

\* a selection whose failure escapes instead of being reported as false
selectDropdownOption_Rethrow(f, pg, level, value, fails) ==
  IF fails THEN [threw |-> TRUE, result |-> FALSE, page |-> pg]
           ELSE [threw |-> FALSE, result |-> TRUE, page |-> PageSelect(f, pg, level, value)]

selectDropdownOption(f, pg, level, value, fails) ==
  IF fails THEN [threw |-> FALSE, result |-> FALSE, page |-> pg]
           ELSE [threw |-> FALSE, result |-> TRUE, page |-> PageSelect(f, pg, level, value)]


(***************************************************************************)
(* discoverValidCombinations, one action per awaited page operation        *)
(***************************************************************************)
\* the three for-of loops: where control goes when an iteration ends
NextVehicleCtl(vts, v) ==
  IF v < Len(vts)
    THEN [pc |-> "selectVehicle", vi |-> v + 1, bi |-> 0, mi |-> 0]
    ELSE [pc |-> "done", vi |-> 0, bi |-> 0, mi |-> 0]

NextBrandCtl(vts, brs, v, b) ==
  IF b < Len(brs)
    THEN [pc |-> "selectBrand", vi |-> v, bi |-> b + 1, mi |-> 0]
    ELSE NextVehicleCtl(vts, v)

\* a discovery that goes on to the next brand without resetting the form
AfterModels_NoReset(vts, brs, v, b) == NextBrandCtl(vts, brs, v, b)

\* after the loop over the models of a brand: reset the form
AfterModels(vts, brs, v, b) ==
  [pc |-> "navigateBack", vi |-> v, bi |-> b, mi |-> 0]

NextModelCtl(vts, brs, mods, v, b, m) ==
  IF m < Len(mods)
    THEN [pc |-> "selectModel", vi |-> v, bi |-> b, mi |-> m + 1]
    ELSE AfterModels(vts, brs, v, b)

ThrownCtl == [pc |-> "thrown", vi |-> 0, bi |-> 0, mi |-> 0]

\* a push that keeps only the first fuel type of a model
PushCombinations_FirstOnly(vc, vehicleType, brand, model, fuelTypes) ==
  IF Len(fuelTypes) > 0
    THEN Append(vc, [vehicleType |-> vehicleType.text, brand |-> brand.text,
                     model |-> model.text, fuelType |-> fuelTypes[1].text])
    ELSE vc

\* validCombinations.push(...) for every fuel type read for a model
PushCombinations(vc, vehicleType, brand, model, fuelTypes) ==
  IF Len(fuelTypes) > 0
    THEN vc \o [i \in 1..Len(fuelTypes) |->
                  [vehicleType |-> vehicleType.text, brand |-> brand.text,
                   model |-> model.text, fuelType |-> fuelTypes[i].text]]
    ELSE vc

\* control moves to ctl; on leaving the loops the local list is published
Goto(ctl, vc) ==
  /\ dpc' = ctl.pc
  /\ vi' = ctl.vi
  /\ bi' = ctl.bi
  /\ mi' = ctl.mi
  /\ validCombinations' = vc
  /\ thisValidCombinations' = IF ctl.pc = "done" THEN vc ELSE thisValidCombinations

\* whether the page operation of this step fails
Fault(fails) ==
  /\ fails => faults < MaxFaults
  /\ faults' = IF fails THEN faults + 1 ELSE faults

NavEvent(ok) == [op |-> "navigate", level |-> 0, value |-> <<>>, ok |-> ok, options |-> <<>>]

SelectEvent(level, value, ok) ==
  [op |-> "select", level |-> level, value |-> value, ok |-> ok, options |-> <<>>]

\* value: the option whose dependent dropdown is read (<<>> for the first)
ReadEvent(level, value, options) ==
  [op |-> "read", level |-> level, value |-> value, ok |-> TRUE, options |-> options]

InitDiscoveryVars ==
  /\ form \in Forms
  /\ page = BlankPage
  /\ dpc = "start"
  /\ vehicleTypes = <<>>
  /\ brands = <<>>
  /\ models = <<>>
  /\ vi = 0 /\ bi = 0 /\ mi = 0
  /\ validCombinations = <<>>
  /\ thisValidCombinations = <<>>
  /\ faults = 0
  /\ trace = <<>>

\* await this.navigateToMainPage() at the start
DiscoverNavigate ==
  /\ dpc = "start"
  /\ \E fails \in BOOLEAN :
       /\ Fault(fails)
       /\ LET r == navigateToMainPage(page, fails)
          IN  /\ page' = r.page
              /\ trace' = Append(trace, NavEvent(~fails))
              /\ Goto(IF r.threw THEN ThrownCtl
                      ELSE [pc |-> "readVehicles", vi |-> 0, bi |-> 0, mi |-> 0],
                      validCombinations)
  /\ UNCHANGED <<form, vehicleTypes, brands, models>>
  /\ UNCHANGED <<dedupVars, extVars, procVars, runVars, fnVars>>

\* const vehicleTypes = await this.getDropdownOptions(vehicle dropdown)
DiscoverReadVehicles ==
  /\ dpc = "readVehicles"
  /\ \E fails \in BOOLEAN :
       /\ Fault(fails)
       /\ LET r == getDropdownOptions(form, page, 1, fails)
          IN  /\ vehicleTypes' = r.options
              /\ trace' = Append(trace, ReadEvent(1, <<>>, r.options))
              /\ Goto(IF r.threw THEN ThrownCtl ELSE NextVehicleCtl(r.options, 0),
                      validCombinations)
  /\ UNCHANGED <<form, page, brands, models>>
  /\ UNCHANGED <<dedupVars, extVars, procVars, runVars, fnVars>>

\* const vehicleSelected = await this.selectDropdownOption(...); if (!vehicleSelected) continue
DiscoverSelectVehicle ==
  /\ dpc = "selectVehicle"
  /\ \E fails \in BOOLEAN :
       /\ Fault(fails)
       /\ LET r == selectDropdownOption(form, page, 1, vehicleTypes[vi].value, fails)
          IN  /\ page' = r.page
              /\ trace' = Append(trace, SelectEvent(1, vehicleTypes[vi].value, r.result))
              /\ Goto(IF r.threw THEN ThrownCtl
                      ELSE IF ~r.result THEN NextVehicleCtl(vehicleTypes, vi)
                      ELSE [pc |-> "readBrands", vi |-> vi, bi |-> 0, mi |-> 0],
                      validCombinations)
  /\ UNCHANGED <<form, vehicleTypes, brands, models>>
  /\ UNCHANGED <<dedupVars, extVars, procVars, runVars, fnVars>>

\* const brands = await this.getDropdownOptions(brand dropdown)
DiscoverReadBrands ==
  /\ dpc = "readBrands"
  /\ \E fails \in BOOLEAN :
       /\ Fault(fails)
       /\ LET r == getDropdownOptions(form, page, 2, fails)
          IN  /\ brands' = r.options
              /\ trace' = Append(trace, ReadEvent(2, vehicleTypes[vi].value, r.options))
              /\ Goto(IF r.threw THEN ThrownCtl
                      ELSE NextBrandCtl(vehicleTypes, r.options, vi, 0),
                      validCombinations)
  /\ UNCHANGED <<form, page, vehicleTypes, models>>
  /\ UNCHANGED <<dedupVars, extVars, procVars, runVars, fnVars>>

\* const brandSelected = await this.selectDropdownOption(...); if (!brandSelected) continue
DiscoverSelectBrand ==
  /\ dpc = "selectBrand"
  /\ \E fails \in BOOLEAN :
       /\ Fault(fails)
       /\ LET r == selectDropdownOption(form, page, 2, brands[bi].value, fails)
          IN  /\ page' = r.page
              /\ trace' = Append(trace, SelectEvent(2, brands[bi].value, r.result))
              /\ Goto(IF r.threw THEN ThrownCtl
                      ELSE IF ~r.result THEN NextBrandCtl(vehicleTypes, brands, vi, bi)
                      ELSE [pc |-> "readModels", vi |-> vi, bi |-> bi, mi |-> 0],
                      validCombinations)
  /\ UNCHANGED <<form, vehicleTypes, brands, models>>
  /\ UNCHANGED <<dedupVars, extVars, procVars, runVars, fnVars>>

\* const models = await this.getDropdownOptions(model dropdown)
DiscoverReadModels ==
  /\ dpc = "readModels"
  /\ \E fails \in BOOLEAN :
       /\ Fault(fails)
       /\ LET r == getDropdownOptions(form, page, 3, fails)
          IN  /\ models' = r.options
              /\ trace' = Append(trace, ReadEvent(3, brands[bi].value, r.options))
              /\ Goto(IF r.threw THEN ThrownCtl
                      ELSE NextModelCtl(vehicleTypes, brands, r.options, vi, bi, 0),
                      validCombinations)
  /\ UNCHANGED <<form, page, vehicleTypes, brands>>
  /\ UNCHANGED <<dedupVars, extVars, procVars, runVars, fnVars>>

\* const modelSelected = await this.selectDropdownOption(...); if (!modelSelected) continue
DiscoverSelectModel ==
  /\ dpc = "selectModel"
  /\ \E fails \in BOOLEAN :
       /\ Fault(fails)
       /\ LET r == selectDropdownOption(form, page, 3, models[mi].value, fails)
          IN  /\ page' = r.page
              /\ trace' = Append(trace, SelectEvent(3, models[mi].value, r.result))
              /\ Goto(IF r.threw THEN ThrownCtl
                      ELSE IF ~r.result
                        THEN NextModelCtl(vehicleTypes, brands, models, vi, bi, mi)
                      ELSE [pc |-> "readFuels", vi |-> vi, bi |-> bi, mi |-> mi],
                      validCombinations)
  /\ UNCHANGED <<form, vehicleTypes, brands, models>>
  /\ UNCHANGED <<dedupVars, extVars, procVars, runVars, fnVars>>

\* const fuelTypes = await this.getDropdownOptions(fuel dropdown), and the pushes
DiscoverReadFuels ==
  /\ dpc = "readFuels"
  /\ \E fails \in BOOLEAN :
       /\ Fault(fails)
       /\ LET r == getDropdownOptions(form, page, 4, fails)
          IN  /\ trace' = Append(trace, ReadEvent(4, models[mi].value, r.options))
              /\ Goto(IF r.threw THEN ThrownCtl
                      ELSE NextModelCtl(vehicleTypes, brands, models, vi, bi, mi),
                      PushCombinations(validCombinations, vehicleTypes[vi],
                                       brands[bi], models[mi], r.options))
  /\ UNCHANGED <<form, page, vehicleTypes, brands, models>>
  /\ UNCHANGED <<dedupVars, extVars, procVars, runVars, fnVars>>

\* await this.navigateToMainPage() after the models of a brand
DiscoverNavigateBack ==
  /\ dpc = "navigateBack"
  /\ \E fails \in BOOLEAN :
       /\ Fault(fails)
       /\ LET r == navigateToMainPage(page, fails)
          IN  /\ page' = r.page
              /\ trace' = Append(trace, NavEvent(~fails))
              /\ Goto(IF r.threw THEN ThrownCtl
                      ELSE [pc |-> "reselectVehicle", vi |-> vi, bi |-> bi, mi |-> 0],
                      validCombinations)
  /\ UNCHANGED <<form, vehicleTypes, brands, models>>
  /\ UNCHANGED <<dedupVars, extVars, procVars, runVars, fnVars>>

\* await this.selectDropdownOption(vehicle dropdown, ...): the result is not read
DiscoverReselectVehicle ==
  /\ dpc = "reselectVehicle"
  /\ \E fails \in BOOLEAN :
       /\ Fault(fails)
       /\ LET r == selectDropdownOption(form, page, 1, vehicleTypes[vi].value, fails)
          IN  /\ page' = r.page
              /\ trace' = Append(trace, SelectEvent(1, vehicleTypes[vi].value, r.result))
              /\ Goto(IF r.threw THEN ThrownCtl
                      ELSE NextBrandCtl(vehicleTypes, brands, vi, bi),
                      validCombinations)
  /\ UNCHANGED <<form, vehicleTypes, brands, models>>
  /\ UNCHANGED <<dedupVars, extVars, procVars, runVars, fnVars>>

\* scrape: discoverValidCombinations has returned and
\* processValidCombinations is called
ProcessingCalled ==
  /\ dpc = "done"
  /\ ppc = "idle"
  /\ ppc' = "start"
  /\ UNCHANGED <<scrapedCount, processedCombinations, successfulCombinations,
                 duplicateCount, csvRows, yields, writeFailures, recordCount,
                 pendingWrites, appendLog, gotoLog, writeFaults, writeOutcomes,
                 delayLog>>
  /\ UNCHANGED <<dedupVars, discVars, extVars, runVars, fnVars>>

NextDiscovery ==
  \/ ProcessingCalled
  \/ DiscoverNavigate
  \/ DiscoverReadVehicles
  \/ DiscoverSelectVehicle
  \/ DiscoverReadBrands
  \/ DiscoverSelectBrand
  \/ DiscoverReadModels
  \/ DiscoverSelectModel
  \/ DiscoverReadFuels
  \/ DiscoverNavigateBack
  \/ DiscoverReselectVehicle

\* the effect of this.deduplicateBatteries(batteries) on the scraper
Deduplicated(batteries) ==
  /\ LET r == deduplicateBatteries(batteries, seenBatteries)
     IN  /\ seenBatteries' = r.seen
         /\ lastUnique' = r.unique
         /\ dedupLog' = dedupLog \o
              [i \in 1..Len(batteries) |->
                 [battery |-> batteries[i], call |-> dedupCalls + 1,
                  kept |-> i \in r.kept]]
  /\ lastBatch' = batteries
  /\ dedupCalls' = dedupCalls + 1

DedupIdle ==
  /\ seenBatteries = {}
  /\ dedupLog = <<>>
  /\ lastBatch = <<>>
  /\ lastUnique = <<>>
  /\ dedupCalls = 0

\* discoverValidCombinations is not running
DiscoveryLocalsIdle ==
  /\ form = [n |-> <<0, 0, 0, 0>>, restricted |-> FALSE]
  /\ page = BlankPage
  /\ dpc = "idle"
  /\ vehicleTypes = <<>>
  /\ brands = <<>>
  /\ models = <<>>
  /\ vi = 0 /\ bi = 0 /\ mi = 0
  /\ validCombinations = <<>>
  /\ faults = 0
  /\ trace = <<>>

DiscoveryIdle == DiscoveryLocalsIdle /\ thisValidCombinations = <<>>

\* the counters as the constructor leaves them, and an empty CSV file
ProcessCounters ==
  /\ scrapedCount = 0
  /\ processedCombinations = 0
  /\ successfulCombinations = 0
  /\ duplicateCount = 0
  /\ csvRows = <<>>
  /\ yields = <<>>
  /\ writeFailures = 0
  /\ recordCount = 0
  /\ pendingWrites = <<>>
  /\ appendLog = <<>>
  /\ gotoLog = <<>>
  /\ writeFaults = 0
  /\ writeOutcomes = <<>>
  /\ delayLog = <<>>

ProcessIdle == ppc = "idle" /\ ProcessCounters

\* let summary = { success: false, ..., errors: [] }
NewSummary ==
  [success |-> FALSE, totalCombinations |-> 0, successfulCombinations |-> 0,
   failedCombinations |-> 0, totalBatteriesFound |-> 0, errors |-> <<>>]

\* no browser, no page, nothing in flight, no signal
RunFields ==
  /\ thisBrowser = "null"
  /\ thisPage = "null"
  /\ inFlight = {}
  /\ hpc = "none"
  /\ summary = NewSummary
  /\ scrapeError = ""
  /\ exitCode = -1
  /\ combinationErrors = <<>>
  /\ discoveryOps = 0
  /\ finalized = FALSE
  /\ probedAfterSignal = FALSE
  /\ displayed = FALSE
  /\ exitBy = ""
  /\ browserCloseCalled = FALSE

RunIdle == rpc = "idle" /\ RunFields

KeysIdle == keyRecords = <<>> /\ keys = <<>>

UrlIdle ==
  /\ slugInput = <<>>
  /\ slugs = <<>>
  /\ urlCombination = NoCombination
  /\ url = <<>>

\* const options = { verbose: false, outputFile: null, headless: true,
\* timeout: null, showHelp: false }; null is <<>> for outputFile and 0 for
\* timeout
DefaultOptions ==
  [verbose |-> FALSE, outputFile |-> <<>>, headless |-> TRUE, timeout |-> 0,
   showHelp |-> FALSE]

\* timeouts: { navigation: 30000, ... }
ConfigNavigationTimeout == 30000

\* config as the module exports it: timeouts.navigation, output.csvFileName
\* (<<>> for the default name), browser.launchOptions.headless, logging.level
DefaultConfig ==
  [navigation |-> ConfigNavigationTimeout, csvFileName |-> <<>>, headless |-> TRUE,
   level |-> "info"]

ArgsFields ==
  /\ parsedOptions = DefaultOptions
  /\ parseError = ""
  /\ cliExitCode = -1
  /\ config = DefaultConfig
  /\ navLog = <<>>

ArgsIdle == argv = <<>> /\ apc = "idle" /\ ArgsFields

ModesIdle ==
  /\ mpc = "idle"
  /\ modeCombination = NoCombination
  /\ modePage = NoPage
  /\ modeLabelTag = "th"
  /\ smartUrl = <<>>
  /\ directUrl = <<>>
  /\ smartRecords = <<>>
  /\ directRecords = <<>>

CleanIdle == cleanPc = "idle" /\ rawValue = <<>> /\ cleanedValue = <<>>

\* const { maxRetries = 3, retryDelay = 1000, backoffMultiplier = 2 } = options
DefaultRetryOptions == [maxRetries |-> 3, retryDelay |-> 1000, backoffMultiplier |-> 2]

RetryIdle ==
  /\ retryPc = "idle"
  /\ retryOptions = DefaultRetryOptions
  /\ retryAttempt = 0
  /\ fnLog = <<>>
  /\ retryDelays = <<>>
  /\ retryResult = "none"

WaitIdle ==
  /\ waitPc = "idle"
  /\ waitInput = [retries |-> 0, selectors |-> 1]
  /\ waitAttempt = 0
  /\ altIndex = 0
  /\ waitLog = <<>>
  /\ waitDelays = <<>>
  /\ waitResult = "none"

\* the exporter as its constructor leaves it
ExporterIdle ==
  /\ expPc = "idle"
  /\ isInitialized = FALSE
  /\ csvWriter = "null"
  /\ filePath = "null"
  /\ initAttempt = 0
  /\ initCalls = 0
  /\ lastInit = "none"
  /\ everInitialized = FALSE
  /\ callLog = <<>>

\* no helper is being applied
LibIdle == CleanIdle /\ RetryIdle /\ WaitIdle /\ ExporterIdle

\* no single function is being applied
FnIdle == KeysIdle /\ UrlIdle /\ ArgsIdle /\ ModesIdle /\ LibIdle

\* nothing outside the helpers has started
CoreIdle ==
  /\ DedupIdle /\ DiscoveryIdle /\ ExtractIdle /\ ProcessIdle /\ RunIdle
  /\ KeysIdle /\ UrlIdle /\ ArgsIdle /\ ModesIdle

InitDiscovery == InitDiscoveryVars /\ DedupIdle /\ ExtractIdle /\ ProcessIdle /\ RunIdle /\ FnIdle

SpecDiscovery == InitDiscovery /\ [][NextDiscovery]_vars


(***************************************************************************)
(* Properties of discovery                                                 *)
(***************************************************************************)
IsSelect(e, level) == e.op = "select" /\ e.level = level

IsRead(e, level) == e.op = "read" /\ e.level = level

IsNavigate(e) == e.op = "navigate"

\* the combination of the fuel option reached by path <<v, b, m, f>>
CombinationOf(path) ==
  [vehicleType |-> TextOf(SubSeq(path, 1, 1)), brand |-> TextOf(SubSeq(path, 1, 2)),
   model |-> TextOf(SubSeq(path, 1, 3)), fuelType |-> TextOf(path)]

\* the combinations of the form below `path`, depth first, from child i on
RECURSIVE CatalogFrom(_, _, _)
CatalogFrom(f, path, i) ==
  IF i > ChildCount(f, path) THEN <<>>
  ELSE (IF Len(path) = 3 THEN <<CombinationOf(Append(path, i))>>
        ELSE CatalogFrom(f, Append(path, i), 1))
       \o CatalogFrom(f, path, i + 1)

Catalog(f) == CatalogFrom(f, <<>>, 1)

\* the last model selection before position k of the trace (0: none)
LastModelSelect(k) ==
  LET S == {j \in 1..(k - 1) : IsSelect(trace[j], 3)}
  IN  IF S = {} THEN 0 ELSE CHOOSE j \in S : \A l \in S : l <= j

\* one combination per fuel option read, under the model selected last
RECURSIVE CombinationsRead(_)
CombinationsRead(k) ==
  IF k = 0 THEN <<>>
  ELSE CombinationsRead(k - 1) \o
       (IF IsRead(trace[k], 4)
          THEN LET m == trace[LastModelSelect(k)].value
               IN  [i \in 1..Len(trace[k].options) |->
                      [vehicleType |-> TextOf(SubSeq(m, 1, 1)),
                       brand |-> TextOf(SubSeq(m, 1, 2)),
                       model |-> TextOf(m),
                       fuelType |-> trace[k].options[i].text]]
          ELSE <<>>)

NavigationsAndSelectionsSucceed ==
  \A k \in 1..Len(trace) :
    (IsNavigate(trace[k]) \/ trace[k].op = "select") => trace[k].ok

\* C2: when every navigation and every selection succeeds, discovery returns
\* exactly one combination per fuel option read after each model selection,
\* in depth-first order (with every read succeeding too: the combinations of
\* the form, depth first), and it never selects on the fuel dropdown.
C2_DiscoveryReturnsFuelOptionsDepthFirst ==
  /\ (dpc = "done" /\ NavigationsAndSelectionsSucceed) =>
       /\ validCombinations = CombinationsRead(Len(trace))
       /\ thisValidCombinations = validCombinations
       /\ faults = 0 => validCombinations = Catalog(form)
  /\ \A k \in 1..Len(trace) : ~IsSelect(trace[k], 4)

\* a finished fault-free discovery of a form with two vehicle types whose
\* models have two fuel types each
C2_Witness ==
  /\ dpc = "done" /\ faults = 0
  /\ \E i, j \in 1..Len(validCombinations) :
       /\ validCombinations[i].model = validCombinations[j].model
       /\ validCombinations[i].fuelType # validCombinations[j].fuelType
  /\ \E i, j \in 1..Len(validCombinations) :
       validCombinations[i].vehicleType # validCombinations[j].vehicleType

IsPrefix(p, q) == Len(p) <= Len(q) /\ SubSeq(q, 1, Len(p)) = p

\* no selection of an option on the way to `path` failed, and no read of a
\* dropdown on the way to it returned zero options
Unaffected(path) ==
  \A k \in 1..Len(trace) :
    /\ (trace[k].op = "select" /\ ~trace[k].ok) => ~IsPrefix(trace[k].value, path)
    /\ (trace[k].op = "read" /\ trace[k].options = <<>>) => ~IsPrefix(trace[k].value, path)

NoNavigationFailed == \A k \in 1..Len(trace) : IsNavigate(trace[k]) => trace[k].ok

InSeq(x, sq) == \E i \in 1..Len(sq) : sq[i] = x

\* C3: a failed selection or a read returning zero options abandons only
\* that branch: discovery does not throw because of it, and the combinations
\* of every branch that suffered no such failure are returned.
C3_FailedBranchIsSkipped ==
  /\ NoNavigationFailed => dpc # "thrown"
  /\ dpc = "done" =>
       \A path \in (1..MaxOptions) \X (1..MaxOptions) \X (1..MaxOptions) \X (1..MaxOptions) :
         (InSeq(CombinationOf(path), Catalog(form)) /\ Unaffected(path))
           => InSeq(CombinationOf(path), validCombinations)

\* discovery finished although a brand selection failed, and returned the
\* combinations of another brand of the same vehicle type
C3_Witness ==
  /\ dpc = "done"
  /\ \E k \in 1..Len(trace) :
       /\ IsSelect(trace[k], 2) /\ ~trace[k].ok
       /\ \E i \in 1..Len(validCombinations) :
            /\ validCombinations[i].vehicleType = TextOf(SubSeq(trace[k].value, 1, 1))
            /\ validCombinations[i].brand # TextOf(trace[k].value)

\* C4 as stated: between the read of the fuel options of one model and the
\* selection of the next model the discoverer navigates to the landing page
\* and re-selects vehicle type and brand.
C4_ResetBeforeEveryModel ==
  \A i, j \in 1..Len(trace) :
    (i < j /\ IsRead(trace[i], 4) /\ IsSelect(trace[j], 3)) =>
      \E k, l, n \in (i + 1)..(j - 1) :
        /\ k < l /\ l < n
        /\ IsNavigate(trace[k]) /\ IsSelect(trace[l], 1) /\ IsSelect(trace[n], 2)

\* C4 (amended): the reset is made once per brand. Between the read of a
\* model's fuel options and the next brand selection the discoverer
\* navigates to the landing page and then attempts to re-select the vehicle
\* type; between two model selections of one brand it does not navigate.
C4_ResetBeforeNextBrand ==
  /\ \A i, j \in 1..Len(trace) :
       (i < j /\ IsRead(trace[i], 4) /\ IsSelect(trace[j], 2)) =>
         \E k, l \in (i + 1)..(j - 1) :
           /\ k < l
           /\ IsNavigate(trace[k]) /\ trace[k].ok /\ IsSelect(trace[l], 1)
  /\ \A i, j \in 1..Len(trace) :
       (/\ i < j /\ IsSelect(trace[i], 3) /\ IsSelect(trace[j], 3)
        /\ \A k \in (i + 1)..(j - 1) : ~IsSelect(trace[k], 2))
         => \A k \in (i + 1)..(j - 1) :
              ~IsNavigate(trace[k]) /\ ~IsSelect(trace[k], 1)

\* fuel options read for two models of one brand, then a second brand selected
C4_Witness ==
  \E i, j, n \in 1..Len(trace) :
    /\ i < j /\ j < n
    /\ IsRead(trace[i], 4) /\ IsRead(trace[j], 4)
    /\ SubSeq(trace[i].value, 1, 2) = SubSeq(trace[j].value, 1, 2)
    /\ trace[i].value # trace[j].value
    /\ IsSelect(trace[n], 2) /\ trace[n].ok

RECURSIVE CountNavigations(_)
CountNavigations(k) ==
  IF k = 0 THEN 0
  ELSE CountNavigations(k - 1) + (IF IsNavigate(trace[k]) THEN 1 ELSE 0)

\* 2 categories, 2 brands each, 1 model each, 1 variant each, nothing fails
ScenarioD ==
  /\ form = [n |-> <<2, 2, 1, 1>>, restricted |-> FALSE]
  /\ faults = 0
  /\ dpc = "done"

\* C5 as stated: scenario D yields 4 combinations and 4 landing navigations.
C5_ScenarioDFourNavigations ==
  ScenarioD => Len(validCombinations) = 4 /\ CountNavigations(Len(trace)) = 4

\* C5 (amended): scenario D yields 4 combinations and 5 landing navigations,
\* the initial one and one reset after each of the 4 brands.
C5_ScenarioDFiveNavigations ==
  ScenarioD => Len(validCombinations) = 4 /\ CountNavigations(Len(trace)) = 5

C5_Witness == ScenarioD /\ Len(thisValidCombinations) = 4


(***************************************************************************)
(* extractBatteryData applied to the pages of the pool                     *)
(***************************************************************************)
InitExtract == ExtractIdle /\ DedupIdle /\ DiscoveryIdle /\ ProcessIdle /\ RunIdle /\ FnIdle

SpecExtract == InitExtract /\ [][NextExtract]_vars

(***************************************************************************)
(* Properties of extractBatteryData                                        *)
(***************************************************************************)
\* the extraction ran on the page and page.evaluate itself was not rejected
Extracted == epc = "extracted" /\ ~extFails

SubstantiveFields ==
  {"voltage", "ampereHour", "totalWarranty", "itemCode", "batteryTitle", "dimensions"}

\* the fields that are read from a labelled row and from nowhere else
RowFieldLabels ==
  [series |-> SeriesLabels,
   itemCode |-> ItemCodeLabels,
   voltage |-> VoltageLabels,
   ampereHour |-> AmpereHourLabels,
   cca |-> CcaLabels,
   totalWarranty |-> TotalWarrantyLabels,
   freeWarranty |-> FreeWarrantyLabels,
   proRataWarranty |-> ProRataWarrantyLabels,
   countryOfOrigin |-> CountryOfOriginLabels,
   productDimensions |-> ProductDimensionsLabels,
   rebate |-> RebateLabels]

\* no tr of the page contains one of the labels
NoMatchingRow(pg, labels) ==
  \A k \in 1..Len(AllRows(pg)), i \in 1..Len(labels) :
    ~Includes(ToLowerCase(RowText(AllRows(pg)[k])), ToLowerCase(labels[i]))

\* the page shows a value for one of the substantive fields
HasSubstantiveField(pg) ==
  \/ CleanValue(extractTableData(AllRows(pg), VoltageLabels)) # <<>>
  \/ CleanValue(extractTableData(AllRows(pg), AmpereHourLabels)) # <<>>
  \/ CleanValue(extractTableData(AllRows(pg), TotalWarrantyLabels)) # <<>>
  \/ CleanValue(extractTableData(AllRows(pg), ItemCodeLabels)) # <<>>
  \/ CleanValue(extractTableData(AllRows(pg), DimensionsLabels)) # <<>>
  \/ CleanValue(extractTableData(AllRows(pg), ProductDimensionsLabels)) # <<>>
  \/ CleanValue(ExtractTitleFrom(pg.titleCells, 1)) # <<>>

MarkerTokens ==
  {MarkerVoltage, MarkerAmpere, MarkerWarranty, MarkerBattery, MarkerAmaron}

\* the text of the page, whatever its case, contains a marker token
ContainsMarkerToken(pg) ==
  \E marker \in MarkerTokens : Includes(ToLowerCase(BodyText(pg)), marker)

\* the page of scenario B: the voltage row and the ampere hour row, in either
\* order, and nothing else that extractBatteryData reads
ScenarioB ==
  /\ extPage.rows \in {<<VoltageRow, AmpereHourRow>>, <<AmpereHourRow, VoltageRow>>}
  /\ extPage.titleCells = <<>>
  /\ extPage.priceElements = <<>>
  /\ extPage.terminalImg = <<>>

\* C6 - for a page whose only rows are "Voltage (V)" = "12" and
\* "Ref. Amphere Hour (AH)" = "35", extractBatteryData returns one record with
\* voltage "12", ampereHour "35" and batteryModel "12V 35AH".
C6_ScenarioBSynthesizedModel ==
  (Extracted /\ ScenarioB) =>
    /\ Len(batteryData) = 1
    /\ batteryData[1].voltage = <<"1", "2">>
    /\ batteryData[1].ampereHour = <<"3", "5">>
    /\ batteryData[1].batteryModel = <<"1", "2", "V", " ", "3", "5", "A", "H">>

\* the extraction ran on the page of scenario B
C6_Witness == Extracted /\ ScenarioB

\* C7 - for every page that passes the gate and shows a substantive field,
\* extractBatteryData returns a record, and every field that has no matching
\* row on the page is the empty string in it: a missing field (the rebate row,
\* say) neither raises an error nor empties the result.
C7_MissingFieldsDefaultToEmpty ==
  (Extracted /\ ContainsMarkerToken(extPage) /\ HasSubstantiveField(extPage)) =>
    /\ Len(batteryData) = 1
    /\ \A field \in DOMAIN RowFieldLabels :
         NoMatchingRow(extPage, RowFieldLabels[field]) => batteryData[1][field] = <<>>

\* the extraction ran on a page that passes the gate, shows a substantive field
\* and has no rebate row
C7_Witness ==
  /\ Extracted
  /\ ContainsMarkerToken(extPage)
  /\ HasSubstantiveField(extPage)
  /\ NoMatchingRow(extPage, RebateLabels)

\* C8 - extractBatteryData never returns a record whose substantive fields
\* (voltage, ampereHour, totalWarranty, itemCode, batteryTitle, dimensions) are
\* all empty, even when vehicleType, brand, model and fuelType are populated.
C8_NoRecordWithoutSubstantiveField ==
  \A i \in 1..Len(batteryData) :
    \E field \in SubstantiveFields : batteryData[i][field] # <<>>

\* the extraction ran to its end on a page that passes the gate and shows no
\* substantive field, for a populated combination, and returned no record
C8_Witness ==
  /\ Extracted
  /\ ContainsMarkerToken(extPage)
  /\ ~HasSubstantiveField(extPage)
  /\ ~NoMatchingRow(extPage, RebateLabels)
  /\ ~EvaluateExtraction(extPage, extCombination).threw
  /\ \A key \in DOMAIN extCombination : extCombination[key] # <<>>
  /\ batteryData = <<>>

\* C9 - when the text of the page contains none of the marker tokens (voltage,
\* ampere, warranty, battery, amaron, compared without regard to case),
\* extractBatteryData returns an empty list, whatever the combination.
C9_GateReturnsEmptyWithoutMarkers ==
  (epc = "extracted" /\ ~ContainsMarkerToken(extPage)) => batteryData = <<>>

\* the extraction ran on a page without marker tokens that shows a substantive
\* field and a rebate row, and returned no record
C9_Witness ==
  /\ Extracted
  /\ ~ContainsMarkerToken(extPage)
  /\ HasSubstantiveField(extPage)
  /\ ~NoMatchingRow(extPage, RebateLabels)
  /\ batteryData = <<>>


(***************************************************************************)
(* deduplicateBatteries applied to arbitrary batches (as the extraction    *)
(* tester of src/unnamed/part_005 and processValidCombinations apply it)   *)
(***************************************************************************)
MaxBatch == 2

MaxDedupCalls == 3

MaxDedupRecords == 3

EmptyStr == <<>>

\* a record as far as createBatteryIdentifier reads it
KeyRecord(itemCode, batteryTitle, voltage, ampereHour, brand) ==
  [itemCode |-> itemCode, batteryTitle |-> batteryTitle, voltage |-> voltage,
   ampereHour |-> ampereHour, dimensions |-> EmptyStr, vehicleType |-> <<"P">>,
   brand |-> brand, model |-> <<"S">>]

\* Records to deduplicate: two that share an item code up to case, spacing
\* and punctuation and differ elsewhere, two
\* without item code that agree up to formatting, one that differs.
DedupRecords ==
  { KeyRecord(<<"A", "-", "1">>, <<"X">>, <<"1", "2">>, <<"3", "5">>, <<"K">>),
    KeyRecord(<<"a", "1", " ">>, <<"Y">>, <<"6">>, EmptyStr, <<"L">>),
    KeyRecord(EmptyStr, EmptyStr, <<"1", "2">>, <<"3", "5">>, <<"K">>),
    KeyRecord(EmptyStr, EmptyStr, <<" ", "1", "2">>, <<"3", "5", " ">>, <<"k">>),
    KeyRecord(EmptyStr, EmptyStr, <<"6">>, <<"3", "5">>, <<"K">>) }

Batches == UNION {[1..n -> DedupRecords] : n \in 0..MaxBatch}

InitDedup == DedupIdle /\ DiscoveryIdle /\ ExtractIdle /\ ProcessIdle /\ RunIdle /\ FnIdle

\* one call this.deduplicateBatteries(batteries)
DeduplicateBatteriesCall ==
  \E batteries \in Batches :
    /\ dedupCalls < MaxDedupCalls
    /\ Len(dedupLog) + Len(batteries) <= MaxDedupRecords
    /\ Deduplicated(batteries)
    /\ UNCHANGED <<discVars, extVars, procVars, runVars, fnVars>>

NextDedup == DeduplicateBatteriesCall

SpecDedup == InitDedup /\ [][NextDedup]_vars

\* the entries of the log that belong to the last call, in input order
LastCallLog == SelectSeq(dedupLog, LAMBDA e : e.call = dedupCalls)

KeptOf(log) == SelectSeq(log, LAMBDA e : e.kept)

\* C1: over all calls of one scraper instance a record is kept if and only
\* if no earlier record, of the same batch or of an earlier one, had the
\* same identity key, and each call returns its kept records in input order.
C1_DedupKeepsFirstOccurrence ==
  /\ \A i \in 1..Len(dedupLog) :
       dedupLog[i].kept <=>
         (\A j \in 1..(i - 1) :
            createBatteryIdentifier(dedupLog[j].battery)
              # createBatteryIdentifier(dedupLog[i].battery))
  /\ LET k == KeptOf(LastCallLog)
     IN  lastUnique = [i \in 1..Len(k) |-> k[i].battery]

\* a record dropped because of a record of an earlier call, another dropped
\* because of a record of its own batch, and a call that kept one record of two
C1_Witness ==
  /\ \E i, j \in 1..Len(dedupLog) :
       /\ j < i /\ ~dedupLog[i].kept /\ dedupLog[j].call < dedupLog[i].call
       /\ dedupLog[j].battery # dedupLog[i].battery
       /\ createBatteryIdentifier(dedupLog[j].battery)
            = createBatteryIdentifier(dedupLog[i].battery)
  /\ \E i, j \in 1..Len(dedupLog) :
       /\ j < i /\ ~dedupLog[i].kept /\ dedupLog[j].call = dedupLog[i].call
       /\ dedupLog[j].kept
  /\ Len(lastUnique) = 1 /\ Len(lastBatch) = 2

(***************************************************************************)
(* createBatteryIdentifier applied to pairs of records                     *)
(***************************************************************************)
\* Records whose item code is absent, blank or present in two spellings, and
\* whose other fields differ in content and in whitespace formatting.
IdentifierRecords ==
  [itemCode : {EmptyStr, <<" ">>, <<"A", "-", "1">>, <<"a", "1", " ">>},
   batteryTitle : {EmptyStr, <<"X", " ", "y">>, <<"X", " ", " ", "y">>},
   voltage : {<<"1", "2">>, <<" ", "1", "2">>},
   ampereHour : {<<"3", "5">>},
   dimensions : {EmptyStr},
   vehicleType : {<<"P">>},
   brand : {<<"K">>, <<"L">>},
   model : {<<"S">>}]

InitIdentifier ==
  /\ keyRecords \in IdentifierRecords \X IdentifierRecords
  /\ keys = <<>>
  /\ UrlIdle /\ ArgsIdle /\ ModesIdle
  /\ DedupIdle /\ DiscoveryIdle /\ ExtractIdle /\ ProcessIdle /\ RunIdle
  /\ LibIdle

\* this.createBatteryIdentifier(battery), for both records
CreateBatteryIdentifier ==
  /\ keys = <<>>
  /\ keys' = <<createBatteryIdentifier(keyRecords[1]),
               createBatteryIdentifier(keyRecords[2])>>
  /\ UNCHANGED keyRecords
  /\ UNCHANGED <<dedupVars, discVars, extVars, procVars, runVars, urlVars, argVars, modeVars, libVars>>

NextIdentifier == CreateBatteryIdentifier

SpecIdentifier == InitIdentifier /\ [][NextIdentifier]_vars

\* the item code is not empty once trimmed
HasItemCode(battery) == Trim(battery.itemCode) # <<>>

\* the fields of a record other than the item code, in keyFields order
OtherKeyFields(battery) ==
  [i \in 1..(Len(KeyFieldNames) - 1) |-> battery[KeyFieldNames[i + 1]]]

\* C11 - when the item code is non-empty after trimming the key depends on the
\* item code only: two records with the same item code get the same key
\* whatever their other fields hold; a record without item code gets the key
\* built from its other fields, so two such records with the same other fields
\* get the same key.
C11_ItemCodeAloneDecidesKey ==
  keys # <<>> =>
    /\ (/\ HasItemCode(keyRecords[1])
        /\ keyRecords[1].itemCode = keyRecords[2].itemCode) => keys[1] = keys[2]
    /\ \A n \in {1, 2} :
         /\ HasItemCode(keyRecords[n]) =>
              keys[n] = ItemCodePrefix \o NormalizeKeyField(keyRecords[n].itemCode)
         /\ ~HasItemCode(keyRecords[n]) =>
              keys[n] = Join(SelectSeq([i \in 1..(Len(KeyFieldNames) - 1) |->
                                          NormalizeKeyField(OtherKeyFields(keyRecords[n])[i])],
                                       IsNonEmpty), <<"_">>)

\* two records with the same item code, one other field that differs in its
\* whitespace and one that differs in content, were given the same key
C11_Witness ==
  /\ keys # <<>>
  /\ HasItemCode(keyRecords[1])
  /\ keyRecords[1].itemCode = keyRecords[2].itemCode
  /\ keyRecords[1].voltage # keyRecords[2].voltage
  /\ Trim(keyRecords[1].voltage) = Trim(keyRecords[2].voltage)
  /\ keyRecords[1].brand # keyRecords[2].brand
  /\ keys[1] = keys[2]

(***************************************************************************)
(* urlify and generateBatteryPageUrl applied to texts and combinations     *)
(***************************************************************************)
MaxSlugInput == 4

\* a letter in each case, a digit, the two separators, another whitespace
\* character and a character that urlify removes
SlugAlphabet == {"A", "b", "1", " ", "-", "\t", "&"}

SlugInputs == UNION {[1..n -> SlugAlphabet] : n \in 0..MaxSlugInput}

\* Commercial / M & M / e-Verito 2.0 / CNG - Petrol
PunctuatedCombination ==
  [vehicleType |-> <<"C", "o", "m", "m", "e", "r", "c", "i", "a", "l">>,
   brand |-> <<"M", " ", "&", " ", "M">>,
   model |-> <<"e", "-", "V", "e", "r", "i", "t", "o", " ", "2", ".", "0">>,
   fuelType |-> <<"C", "N", "G", " ", "-", " ", "P", "e", "t", "r", "o",
               "l">>]

UrlCombinations == Combinations \cup {PunctuatedCombination}

\* either a text for urlify or a combination for generateBatteryPageUrl
InitUrl ==
  /\ \/ slugInput \in SlugInputs /\ urlCombination = NoCombination
     \/ slugInput = <<>> /\ urlCombination \in UrlCombinations
  /\ slugs = <<>>
  /\ url = <<>>
  /\ KeysIdle /\ ArgsIdle /\ ModesIdle
  /\ DedupIdle /\ DiscoveryIdle /\ ExtractIdle /\ ProcessIdle /\ RunIdle
  /\ LibIdle

\* urlify(text)
Urlify ==
  /\ urlCombination = NoCombination
  /\ slugs = <<>>
  /\ slugs' = <<urlify(slugInput)>>
  /\ UNCHANGED <<slugInput, urlCombination, url>>
  /\ UNCHANGED <<dedupVars, discVars, extVars, procVars, runVars, keyVars, argVars, modeVars, libVars>>

\* urlify applied to a slug urlify returned
UrlifyAgain ==
  /\ Len(slugs) = 1
  /\ slugs' = Append(slugs, urlify(slugs[1]))
  /\ UNCHANGED <<slugInput, urlCombination, url>>
  /\ UNCHANGED <<dedupVars, discVars, extVars, procVars, runVars, keyVars, argVars, modeVars, libVars>>

\* this.generateBatteryPageUrl(combination.vehicleType, ...)
GenerateBatteryPageUrl ==
  /\ urlCombination # NoCombination
  /\ url = <<>>
  /\ url' = generateBatteryPageUrl(urlCombination.vehicleType, urlCombination.brand,
                                   urlCombination.model, urlCombination.fuelType)
  /\ UNCHANGED <<slugInput, slugs, urlCombination>>
  /\ UNCHANGED <<dedupVars, discVars, extVars, procVars, runVars, keyVars, argVars, modeVars, libVars>>

NextUrl == Urlify \/ UrlifyAgain \/ GenerateBatteryPageUrl

SpecUrl == InitUrl /\ [][NextUrl]_vars

\* 'passengers/ashok-leyland/stile/diesel'
StileDieselPath ==
  <<"p", "a", "s", "s", "e", "n", "g", "e", "r", "s", "/", "a", "s", "h",
  "o", "k", "-", "l", "e", "y", "l", "a", "n", "d", "/", "s", "t", "i",
  "l", "e", "/", "d", "i", "e", "s", "e", "l">>

\* the slug of a text, told from the text alone: the runs of letters and
\* digits of the text, lower-cased, joined by hyphens (a character that is
\* neither whitespace nor a hyphen nor a letter or digit joins its neighbours)
RECURSIVE SlugWords(_, _)
SlugWords(text, word) ==
  IF text = <<>> THEN (IF word = <<>> THEN <<>> ELSE <<word>>)
  ELSE IF IsSpace(Head(text)) \/ Head(text) = "-"
    THEN (IF word = <<>> THEN <<>> ELSE <<word>>) \o SlugWords(Tail(text), <<>>)
  ELSE IF IsWordChar(Head(text)) /\ Head(text) # "_"
    THEN SlugWords(Tail(text), Append(word, LowerChar(Head(text))))
  ELSE SlugWords(Tail(text), word)

SlugOf(text) == Join(SlugWords(text, <<>>), <<"-">>)

\* C12 - generateBatteryPageUrl returns the base https://www.amaron.com/battery/
\* followed by the slugs of vehicle type, brand, model and fuel type in that
\* order, separated by '/'; (Passengers, ASHOK LEYLAND, Stile, Diesel) gives
\* the path passengers/ashok-leyland/stile/diesel.
C12_UrlIsBaseAndFourSlugs ==
  url # <<>> =>
    /\ url = BatteryBaseUrl
               \o Join(<<SlugOf(urlCombination.vehicleType), SlugOf(urlCombination.brand),
                         SlugOf(urlCombination.model), SlugOf(urlCombination.fuelType)>>,
                       <<"/">>)
    /\ urlCombination = StileDiesel => url = BatteryBaseUrl \o StileDieselPath

\* the URL of Passengers / ASHOK LEYLAND / Stile / Diesel has been built
C12_Witness == url # <<>> /\ urlCombination = StileDiesel

\* s matches ^[a-z0-9]+(-[a-z0-9]+)*$
MatchesSlugPattern(s) ==
  /\ s # <<>>
  /\ \A i \in 1..Len(s) : IsLower(s[i]) \/ IsDigit(s[i]) \/ s[i] = "-"
  /\ s[1] # "-" /\ s[Len(s)] # "-"
  /\ \A i \in 1..(Len(s) - 1) : ~(s[i] = "-" /\ s[i + 1] = "-")

\* the text is made of letters, digits, spaces and hyphens only
IsPlainText(s) ==
  \A i \in 1..Len(s) : IsUpper(s[i]) \/ IsLower(s[i]) \/ IsDigit(s[i]) \/ s[i] \in {" ", "-"}

\* C13 - for every text made only of letters, digits, spaces and hyphens,
\* urlify returns the empty string or a string matching
\* ^[a-z0-9]+(-[a-z0-9]+)*$.
C13_SlugMatchesPattern ==
  (Len(slugs) >= 1 /\ IsPlainText(slugInput)) =>
    (slugs[1] = <<>> \/ MatchesSlugPattern(slugs[1]))

\* a text that starts with a hyphen and holds a capital letter was given a
\* slug of two words
C13_Witness ==
  /\ Len(slugs) >= 1
  /\ IsPlainText(slugInput)
  /\ slugInput # <<>> /\ Head(slugInput) = "-"
  /\ \E i \in 1..Len(slugInput) : IsUpper(slugInput[i])
  /\ Includes(slugs[1], <<"-">>)

\* C14 - urlify is idempotent: urlify(urlify(s)) = urlify(s) for every text s.
C14_SlugIdempotent ==
  Len(slugs) = 2 => slugs[2] = slugs[1]

\* urlify was applied twice, the first time to a text that it changed
C14_Witness ==
  /\ Len(slugs) = 2
  /\ slugs[1] # <<>>
  /\ slugs[1] # slugInput
  /\ \E i \in 1..Len(slugInput) : slugInput[i] \in {"\t", "&"}

(***************************************************************************)
(* processValidCombinations: every combination's page is fetched, its      *)
(* records are extracted, deduplicated and appended to the CSV file        *)
(***************************************************************************)
MaxCombinations == 2

\* Item Code | 'AAM-1'
ItemCodeRow ==
  [label |-> <<"I", "t", "e", "m", " ", "C", "o", "d", "e">>,
   value |-> <<"A", "A", "M", "-", "1">>,
   hasTd |-> TRUE]

\* a page with an item code, a voltage and a rebate row
CodedPage ==
  [text |-> BrandText, rows |-> <<ItemCodeRow, VoltageRow, ExchangeValueRow>>,
   titleCells |-> <<>>, priceElements |-> <<>>, terminalImg |-> <<>>]

\* a page with the same item code whose other fields differ
CodedPageOther ==
  [text |-> BrandText, rows |-> <<AmpereHourRow, ExchangeValueRow, ItemCodeRow>>,
   titleCells |-> <<>>, priceElements |-> PriceElements,
   terminalImg |-> TerminalImgSrc]

\* a page without item code
UncodedPage ==
  [text |-> BrandText, rows |-> <<VoltageRow, ExchangeValueRow>>,
   titleCells |-> <<>>, priceElements |-> <<>>, terminalImg |-> <<>>]

\* a page without rebate row
NoRebatePage ==
  [text |-> BrandText, rows |-> <<VoltageRow, AmpereHourRow>>,
   titleCells |-> <<>>, priceElements |-> <<>>, terminalImg |-> <<>>]

ProcessPages == {CodedPage, CodedPageOther, UncodedPage, NoRebatePage}

\* What page.goto(url) does: it throws (timeout, network), or it resolves to a
\* response that is ok() or not, with the document the page then shows.
Responses ==
  {[threw |-> TRUE, ok |-> FALSE, page |-> NoPage],
   [threw |-> FALSE, ok |-> FALSE, page |-> NoPage]}
  \cup {[threw |-> FALSE, ok |-> TRUE, page |-> pg] : pg \in ProcessPages}

\* a testBatteryPageUrl that lets the error of page.goto escape
testBatteryPageUrl_Rethrow(response, combination, fails) ==
  IF response.threw
    THEN [threw |-> TRUE, batteryData |-> <<>>, gotoCalls |-> 1]
    ELSE [threw |-> FALSE,
          batteryData |-> IF response.ok
                            THEN extractBatteryData(response.page, combination, fails)
                            ELSE <<>>,
          gotoCalls |-> 1]

\* testBatteryPageUrl(url, combination): one page.goto inside try / catch.
\* Its null is modelled as the empty list: the caller tests
\* batteryData && batteryData.length > 0. threw: an error escaped the function.
testBatteryPageUrl(response, combination, fails) ==
  [threw |-> FALSE,
   batteryData |-> IF response.threw \/ ~response.ok
                     THEN <<>>
                     ELSE extractBatteryData(response.page, combination, fails),
   gotoCalls |-> 1]

CombinationLists == UNION {[1..n -> Combinations] : n \in 0..MaxCombinations}

(***************************************************************************)
(* CSVExporter.appendBatteryRecord as far as the processing loop sees it   *)
(***************************************************************************)
\* const maxRetries = 3
MaxAppendAttempts == 3

MaxWriteFaults == 3

\* How one write attempt ends: the row is written; the attempt fails with
\* nothing written (directory not writable, write error); or the 10 s timer of
\* Promise.race fires first, which rejects the attempt and leaves the
\* writeRecords call running.
AttemptOutcomes == {"ok", "error", "timeout"}

\* the outcomes of the attempts of one call: nothing is attempted after an ok
OutcomeLists ==
  {outcomes \in [1..MaxAppendAttempts -> AttemptOutcomes] :
     \A k \in 1..(MaxAppendAttempts - 1) : outcomes[k] = "ok" => outcomes[k + 1] = "ok"}

\* the for loop of appendBatteryRecord from `attempt` on; timedOut counts the
\* attempts so far whose write is still running
RECURSIVE AppendFrom(_, _, _)
AppendFrom(outcomes, attempt, timedOut) ==
  IF outcomes[attempt] = "ok"
    THEN [threw |-> FALSE, attempts |-> attempt, timedOut |-> timedOut]
    ELSE LET running == timedOut + (IF outcomes[attempt] = "timeout" THEN 1 ELSE 0)
         IN  IF attempt = MaxAppendAttempts
               THEN [threw |-> TRUE, attempts |-> attempt, timedOut |-> running]
               ELSE AppendFrom(outcomes, attempt + 1, running)

appendBatteryRecord(outcomes) == AppendFrom(outcomes, 1, 0)

\* the attempts of a call that did not write
FaultsOf(outcomes) ==
  LET r == appendBatteryRecord(outcomes)
  IN  IF r.threw THEN r.attempts ELSE r.attempts - 1

RECURSIVE SumFaults(_, _)
SumFaults(outs, i) ==
  IF i > Len(outs) THEN 0 ELSE FaultsOf(outs[i]) + SumFaults(outs, i + 1)

Repeat(x, n) == [i \in 1..n |-> x]

\* the sink and the counters as the write loop leaves them; threw: an error
\* of appendBatteryRecord escaped the loop
Sink == [csvRows |-> csvRows, recordCount |-> recordCount,
         pendingWrites |-> pendingWrites, scrapedCount |-> scrapedCount,
         writeFailures |-> writeFailures, appendLog |-> appendLog,
         threw |-> FALSE]

\* one pass of the loop body for a record whose appendBatteryRecord ended as r
Saved(sink, battery, r) ==
  [sink EXCEPT !.csvRows = IF r.threw THEN @ ELSE Append(@, battery),
               !.recordCount = IF r.threw THEN @ ELSE @ + 1,
               !.pendingWrites = @ \o Repeat(battery, r.timedOut),
               !.scrapedCount = IF r.threw THEN @ ELSE @ + 1,
               !.writeFailures = IF r.threw THEN @ + 1 ELSE @,
               !.appendLog = Append(@, [battery |-> battery, ok |-> ~r.threw])]

\* a write loop without try / catch: the error of appendBatteryRecord escapes
RECURSIVE WriteLoop_Rethrow(_, _, _, _)
WriteLoop_Rethrow(uniqueBatteries, outs, i, sink) ==
  IF i > Len(uniqueBatteries) THEN sink
  ELSE IF appendBatteryRecord(outs[i]).threw
         THEN [Saved(sink, uniqueBatteries[i], appendBatteryRecord(outs[i]))
                 EXCEPT !.threw = TRUE]
         ELSE WriteLoop_Rethrow(uniqueBatteries, outs, i + 1,
                Saved(sink, uniqueBatteries[i], appendBatteryRecord(outs[i])))

\* for (const battery of uniqueBatteries) { try { await appendBatteryRecord;
\* this.scrapedCount++ } catch { log } }, from record i on
RECURSIVE WriteLoop(_, _, _, _)
WriteLoop(uniqueBatteries, outs, i, sink) ==
  IF i > Len(uniqueBatteries) THEN sink
  ELSE WriteLoop(uniqueBatteries, outs, i + 1,
         Saved(sink, uniqueBatteries[i], appendBatteryRecord(outs[i])))

\* await utils.delay(500)
ProbeDelay == 500

\* a loop body that waits only after a combination that yielded records
DelayAfterProbe_OnlyOnData(data) == IF Len(data) > 0 THEN ProbeDelay ELSE 0

\* the delay awaited at the end of the loop body, whatever the probe returned
DelayAfterProbe(data) == ProbeDelay

(***************************************************************************)
(* The processing loop                                                     *)
(***************************************************************************)
\* the scraper after discovery has stored its combinations
InitProcess ==
  /\ ppc = "start"
  /\ ProcessCounters
  /\ thisValidCombinations \in CombinationLists
  /\ DiscoveryLocalsIdle
  /\ DedupIdle
  /\ ExtractIdle
  /\ FnIdle
  /\ RunIdle

\* the entry of processValidCombinations: no combinations is an error
EnterProcessing ==
  /\ ppc = "start"
  /\ IF Len(thisValidCombinations) = 0
       THEN ppc' = "failed" /\ UNCHANGED processedCombinations
       ELSE ppc' = "test" /\ processedCombinations' = 0
  /\ UNCHANGED <<scrapedCount, successfulCombinations, duplicateCount, csvRows,
                 yields, writeFailures, recordCount, pendingWrites, appendLog,
                 gotoLog, writeFaults, writeOutcomes, delayLog>>
  /\ UNCHANGED <<dedupVars, discVars, extVars, fnVars>>

\* the head of the loop body: the next combination's URL is tested. An error
\* that escapes testBatteryPageUrl ends processValidCombinations (catch at 745).
\* responses: what page.goto can do in this step.
TestCombination(responses) ==
  /\ ppc = "test"
  /\ processedCombinations' = processedCombinations + 1
  /\ LET combination == thisValidCombinations[processedCombinations + 1]
     IN  \E response \in responses, fails \in BOOLEAN :
           /\ fails => (~response.threw /\ response.ok)
           /\ \E tested \in {testBatteryPageUrl(response, combination, fails)} :
                  /\ batteryData' = tested.batteryData
                  /\ yields' = IF tested.threw THEN yields ELSE Append(yields, batteryData')
                  /\ gotoLog' = Append(gotoLog, [threw |-> response.threw,
                                                 calls |-> tested.gotoCalls])
                  /\ ppc' = IF tested.threw THEN "failed" ELSE "save"
           /\ extPage' = IF response.threw THEN extPage ELSE response.page
           /\ extCombination' = combination
           /\ extFails' = fails
  /\ UNCHANGED <<scrapedCount, successfulCombinations, duplicateCount, csvRows,
                 writeFailures, recordCount, pendingWrites, appendLog, writeFaults,
                 writeOutcomes, delayLog, epc>>
  /\ UNCHANGED <<dedupVars, discVars, fnVars>>

\* the rest of the loop body: deduplication, the writes and the counters.
\* outs: how the write attempts of each appendBatteryRecord call end. An error
\* that escapes the write loop ends processValidCombinations (catch at 745).
SaveCombination(outcomeLists) ==
  /\ ppc = "save"
  /\ IF Len(batteryData) > 0
       THEN \E uniqueBatteries \in {deduplicateBatteries(batteryData, seenBatteries).unique} :
              /\ successfulCombinations' = successfulCombinations + 1
              /\ Deduplicated(batteryData)
              /\ \E outs \in [1..Len(uniqueBatteries) -> outcomeLists] :
                   /\ writeFaults + SumFaults(outs, 1) <= MaxWriteFaults
                   /\ writeFaults' = writeFaults + SumFaults(outs, 1)
                   /\ writeOutcomes' = writeOutcomes \o outs
                   /\ \E sink \in {WriteLoop(uniqueBatteries, outs, 1, Sink)} :
                        /\ csvRows' = sink.csvRows
                        /\ recordCount' = sink.recordCount
                        /\ pendingWrites' = sink.pendingWrites
                        /\ scrapedCount' = sink.scrapedCount
                        /\ writeFailures' = sink.writeFailures
                        /\ appendLog' = sink.appendLog
                        /\ ppc' = IF sink.threw THEN "failed"
                                  ELSE IF processedCombinations < Len(thisValidCombinations)
                                         THEN "test" ELSE "done"
                        /\ delayLog' = IF sink.threw THEN delayLog
                                       ELSE Append(delayLog, DelayAfterProbe(batteryData))
              /\ duplicateCount' =
                   IF Len(batteryData) - Len(uniqueBatteries) > 0
                     THEN duplicateCount + (Len(batteryData) - Len(uniqueBatteries))
                     ELSE duplicateCount
       ELSE /\ UNCHANGED <<successfulCombinations, csvRows, scrapedCount, writeFailures,
                           duplicateCount, recordCount, pendingWrites, appendLog,
                           writeFaults, writeOutcomes>>
            /\ UNCHANGED dedupVars
            /\ ppc' = IF processedCombinations < Len(thisValidCombinations)
                        THEN "test" ELSE "done"
            /\ delayLog' = Append(delayLog, DelayAfterProbe(batteryData))
  /\ UNCHANGED <<processedCombinations, yields, gotoLog>>
  /\ UNCHANGED <<discVars, extVars, fnVars>>

\* a writeRecords call that had timed out completes: its row reaches the file
LateWriteLands ==
  /\ pendingWrites # <<>>
  /\ csvRows' = Append(csvRows, Head(pendingWrites))
  /\ pendingWrites' = Tail(pendingWrites)
  /\ UNCHANGED <<ppc, scrapedCount, processedCombinations, successfulCombinations,
                 duplicateCount, yields, writeFailures, recordCount, appendLog,
                 gotoLog, writeFaults, writeOutcomes, delayLog>>
  /\ UNCHANGED <<dedupVars, discVars, extVars, fnVars, runVars>>

\* processValidCombinations on its own, with every response and every write
\* outcome
ProcessStart == EnterProcessing /\ UNCHANGED runVars

TestBatteryPageUrl == TestCombination(Responses) /\ UNCHANGED runVars

SaveBatteries == SaveCombination(OutcomeLists) /\ UNCHANGED runVars

NextProcess == ProcessStart \/ TestBatteryPageUrl \/ SaveBatteries \/ LateWriteLands

SpecProcess == InitProcess /\ [][NextProcess]_vars

\* the loop body has run to its end for every combination taken so far
BetweenCombinations == ppc \in {"test", "done"}

\* The last two combinations processed each yielded one record, the two
\* records carry the same non-empty item code, no combination before them
\* yielded a record and no write attempt has failed or timed out.
TwoYieldsShareItemCode ==
  /\ BetweenCombinations
  /\ Len(yields) >= 2
  /\ LET n == Len(yields)
     IN  /\ Len(yields[n - 1]) = 1 /\ Len(yields[n]) = 1
         /\ yields[n][1].itemCode # <<>>
         /\ yields[n - 1][1].itemCode = yields[n][1].itemCode
         /\ \A k \in 1..(n - 2) : yields[k] = <<>>
  /\ writeFaults = 0

\* C10 - if two successively processed combinations each yield one record with
\* the same non-empty itemCode and every write succeeds, then after both
\* exactly one row has been written (scrapedCount = 1) and duplicateCount = 1.
C10_SharedItemCodeWrittenOnce ==
  TwoYieldsShareItemCode =>
    /\ scrapedCount = 1
    /\ Len(csvRows) = 1
    /\ duplicateCount = 1

\* two different combinations whose pages differ yielded records with the
\* same item code, and both have been processed
C10_Witness ==
  /\ TwoYieldsShareItemCode
  /\ LET n == Len(yields)
     IN  /\ yields[n - 1][1].vehicleType # yields[n][1].vehicleType
         /\ yields[n - 1][1].voltage # yields[n][1].voltage

(***************************************************************************)
(* Failures inside the processing loop                                     *)
(***************************************************************************)
\* the combinations whose page.goto threw
NavigationFailures == {k \in 1..Len(gotoLog) : gotoLog[k].threw}

\* C16 - a failure while one combination is processed (navigation error,
\* non-OK status, extraction error, empty result) never aborts the run: every
\* combination of validCombinations is probed, and when processing ends
\* processedCombinations is the number of valid combinations.
C16_FailedCombinationNeverAborts ==
  /\ ppc = "failed" => Len(thisValidCombinations) = 0
  /\ ppc = "done" =>
       /\ processedCombinations = Len(thisValidCombinations)
       /\ Len(gotoLog) = Len(thisValidCombinations)
  /\ ppc \in {"test", "save"} => Len(gotoLog) = processedCombinations

\* processing has ended after a first combination whose navigation threw and a
\* second one that yielded a record
C16_Witness ==
  /\ ppc = "done"
  /\ Len(thisValidCombinations) = 2
  /\ Len(gotoLog) = 2
  /\ gotoLog[1].threw
  /\ Len(yields) = 2
  /\ yields[2] # <<>>

\* C18 - a combination whose page.goto threw a transient network error has
\* been navigated to more than once before it is skipped.
C18_NavigationIsRetried ==
  \A k \in NavigationFailures : gotoLog[k].calls > 1

\* a combination has been skipped after its page.goto threw
C18_Witness ==
  /\ BetweenCombinations
  /\ NavigationFailures # {}

\* the appendBatteryRecord calls that end without `ok`: every attempt failed
FailedCalls == {k \in 1..Len(writeOutcomes) : \A a \in 1..MaxAppendAttempts :
                                                writeOutcomes[k][a] # "ok"}

\* C19 - when appendBatteryRecord fails for a record the error is caught:
\* scrapedCount counts the records whose call succeeded only, every record
\* handed to the loop has had its call, and processing goes on to the last
\* combination.
C19_WriteFailureIsCaught ==
  /\ scrapedCount = Len(writeOutcomes) - Cardinality(FailedCalls)
  /\ FailedCalls # {} =>
       /\ ppc # "failed"
       /\ ppc = "done" => processedCombinations = Len(thisValidCombinations)

\* the first combination's record could not be written, the second one's was
C19_Witness ==
  /\ ppc = "done"
  /\ Len(writeOutcomes) = 2
  /\ FailedCalls = {1}
  /\ scrapedCount = 1
  /\ processedCombinations = 2

\* the rows of the file that hold record b
RowsOf(b) == {k \in 1..Len(csvRows) : csvRows[k] = b}

\* the records whose appendBatteryRecord call succeeded
SavedRecords == {appendLog[k].battery : k \in {j \in 1..Len(appendLog) : appendLog[j].ok}}

\* the writeRecords calls of record b that are still running
PendingOf(b) == {k \in 1..Len(pendingWrites) : pendingWrites[k] = b}

\* C20 - between two combinations every record that survived deduplication
\* and whose write succeeded is exactly one row of the file, and no write of
\* it is still running.
C20_SavedRecordIsOneRowBeforeNextProbe ==
  BetweenCombinations =>
    \A b \in SavedRecords : Cardinality(RowsOf(b)) = 1 /\ PendingOf(b) = {}

\* a record whose call succeeded on a retry after a timed-out attempt is in
\* the file twice
C20_Witness ==
  /\ BetweenCombinations
  /\ \E b \in SavedRecords : Cardinality(RowsOf(b)) = 2

\* C27 - after every combination probe and before the next probe starts,
\* processValidCombinations waits the fixed delay of 500 ms, whether the probe
\* yielded records, returned no data or failed.
C27_FixedDelayAfterEveryProbe ==
  /\ \A k \in 1..Len(delayLog) : delayLog[k] = ProbeDelay
  /\ BetweenCombinations => Len(delayLog) = Len(gotoLog)
  /\ Len(gotoLog) <= Len(delayLog) + 1

\* two combinations have been processed, the first one's navigation failed,
\* the second one's page had no data, and two delays have been awaited
C27_Witness ==
  /\ ppc = "done"
  /\ Len(gotoLog) = 2
  /\ gotoLog[1].threw
  /\ ~gotoLog[2].threw
  /\ yields = <<<<>>, <<>>>>
  /\ Len(delayLog) = 2

(***************************************************************************)
(* A run: main, scrape and the signal handler                              *)
(***************************************************************************)
MaxDiscoveryOps == 2

\* the groups a step of main or of the signal handler leaves alone unless it
\* is a step of processValidCombinations
scraperVars == <<dedupVars, extVars, procVars, fnVars>>

\* the discovery variables but this.validCombinations
discLocals == <<form, page, dpc, vehicleTypes, brands, models, vi, bi, mi,
                validCombinations, faults, trace>>

\* a page operation of the main flow, and the page.close of the signal handler
MainOp(op) == [by |-> "main", op |-> op]

SignalClose == [by |-> "signal", op |-> "close"]

MainOps == {o \in inFlight : o.by = "main"}

\* closeBrowser up to its first await: page.close() is called if this.page is set
CloseStarted(op) == IF thisPage = "null" THEN inFlight ELSE inFlight \cup {op}

\* this.page once a close of it has been called
Closing == IF thisPage = "null" THEN "null" ELSE "closed"

\* how page.close() and browser.close() end
CloseOutcomes == {"ok", "pageCloseFails", "browserCloseFails"}

\* closeBrowser from its first await on: this.page and this.browser as it
\* leaves them. pageCloseCalled: this.page was set when closeBrowser began.
\* browserClose: browser.close() was called.
closeBrowser(outcome, pageCloseCalled) ==
  IF pageCloseCalled /\ outcome = "pageCloseFails"
    THEN [page |-> thisPage, browser |-> thisBrowser, browserClose |-> FALSE]
    ELSE [page |-> "null",
          browser |-> IF outcome = "browserCloseFails" THEN thisBrowser ELSE "null",
          browserClose |-> thisBrowser # "null"]

\* a shutdown code that is non-zero when a combination failed
ExitCodeOf_FailedCombinations(s) ==
  IF s.success /\ s.failedCombinations = 0 THEN 0 ELSE 1

\* process.exit(summary.success ? 0 : 1)
ExitCodeOf(s) == IF s.success THEN 0 ELSE 1

\* the records the write loop of the combination just probed hands to
\* appendBatteryRecord
RecordsToWrite ==
  IF Len(batteryData) > 0
    THEN deduplicateBatteries(batteryData, seenBatteries).unique
    ELSE <<>>

\* the file when process.exit is called: a writeRecords call that is in
\* flight has appended its row or has not
RowsAtExit ==
  IF rpc = "writing"
    THEN {csvRows, Append(csvRows, RecordsToWrite[1])}
    ELSE {csvRows}

\* the catch of scrape: summary.errors.push(error.message), then the finally
Caught(message) ==
  /\ summary' = [summary EXCEPT !.errors = Append(@, message)]
  /\ scrapeError' = message
  /\ rpc' = "finally"

\* main has made the scraper, installed the signal handlers and called scrape
InitRun ==
  /\ rpc = "scrape"
  /\ RunFields
  /\ ProcessIdle
  /\ DedupIdle
  /\ DiscoveryIdle
  /\ ExtractIdle
  /\ FnIdle

InitializeBrowser ==
  /\ rpc = "scrape"
  /\ \E outcome \in {"ok", "launchFails", "newPageFails"} :
       /\ thisBrowser' = IF outcome = "launchFails" THEN "null" ELSE "open"
       /\ thisPage' = IF outcome = "ok" THEN "open" ELSE "null"
       /\ IF outcome = "ok"
            THEN rpc' = "initCsv" /\ UNCHANGED <<summary, scrapeError>>
            ELSE Caught("Failed to initialize browser")
  /\ UNCHANGED <<inFlight, hpc, exitCode, combinationErrors, discoveryOps>>
  /\ UNCHANGED <<scraperVars, discVars>>
  /\ UNCHANGED runGhosts

InitializeCSVExporter ==
  /\ rpc = "initCsv"
  /\ \E outcome \in {"ok", "fails"} :
       IF outcome = "ok"
         THEN rpc' = "discover" /\ UNCHANGED <<summary, scrapeError>>
         ELSE Caught("Failed to initialize CSV exporter")
  /\ UNCHANGED <<thisBrowser, thisPage, inFlight, hpc, exitCode, combinationErrors,
                 discoveryOps>>
  /\ UNCHANGED <<scraperVars, discVars>>
  /\ UNCHANGED runGhosts

\* the page operations of discovery in the order it makes them:
\* page.goto (navigateToMainPage), page.evaluate (getDropdownOptions),
\* page.select (selectDropdownOption)
DiscoveryOp(n) == IF n = 0 THEN "goto" ELSE IF n = 1 THEN "evaluate" ELSE "select"

\* discovery calls its next page operation and awaits it
DiscoveryAwaits ==
  /\ rpc = "discover"
  /\ discoveryOps < MaxDiscoveryOps
  /\ rpc' = "discovering"
  /\ inFlight' = IF thisPage = "null" THEN inFlight
                 ELSE inFlight \cup {MainOp(DiscoveryOp(discoveryOps))}
  /\ UNCHANGED <<thisBrowser, thisPage, hpc, summary, scrapeError, exitCode,
                 combinationErrors, discoveryOps>>
  /\ UNCHANGED <<scraperVars, discVars>>
  /\ UNCHANGED runGhosts

\* the operation settles. A rejected page.goto is rethrown by navigateToMainPage
\* and by discoverValidCombinations; getDropdownOptions and
\* selectDropdownOption catch theirs.
DiscoverySettles ==
  /\ rpc = "discovering"
  /\ \E settled \in {"resolved", "rejected"} :
       /\ thisPage # "open" => settled = "rejected"
       /\ IF settled = "rejected" /\ DiscoveryOp(discoveryOps) = "goto"
            THEN Caught("Failed to discover valid combinations")
            ELSE rpc' = "discover" /\ UNCHANGED <<summary, scrapeError>>
  /\ inFlight' = inFlight \ MainOps
  /\ discoveryOps' = discoveryOps + 1
  /\ UNCHANGED <<thisBrowser, thisPage, hpc, exitCode, combinationErrors>>
  /\ UNCHANGED <<scraperVars, discVars>>
  /\ UNCHANGED runGhosts

\* this.validCombinations = validCombinations; processValidCombinations is called
DiscoveryReturns ==
  /\ rpc = "discover"
  /\ discoveryOps >= 1
  /\ thisValidCombinations' \in CombinationLists
  /\ rpc' = "process"
  /\ ppc' = "start"
  /\ UNCHANGED <<thisBrowser, thisPage, inFlight, hpc, summary, scrapeError, exitCode,
                 combinationErrors, discoveryOps>>
  /\ UNCHANGED <<scrapedCount, processedCombinations, successfulCombinations,
                 duplicateCount, csvRows, yields, writeFailures, recordCount,
                 pendingWrites, appendLog, gotoLog, writeFaults, writeOutcomes,
                 delayLog>>
  /\ UNCHANGED <<dedupVars, extVars, fnVars, discLocals>>
  /\ UNCHANGED runGhosts

RunEnterProcessing ==
  /\ rpc = "process"
  /\ EnterProcessing
  /\ UNCHANGED runVars

\* testBatteryPageUrl calls page.goto and awaits it; with this.page null the
\* call itself throws
ProbeAwaits ==
  /\ rpc = "process"
  /\ ppc = "test"
  /\ rpc' = "probing"
  /\ inFlight' = IF thisPage = "null" THEN inFlight ELSE inFlight \cup {MainOp("goto")}
  /\ UNCHANGED <<thisBrowser, thisPage, hpc, summary, scrapeError, exitCode,
                 combinationErrors, discoveryOps>>
  /\ UNCHANGED <<scraperVars, discVars>>
  /\ probedAfterSignal' = (probedAfterSignal \/ hpc # "none")
  /\ UNCHANGED <<finalized, displayed, exitBy, browserCloseCalled>>

RejectedResponse == [threw |-> TRUE, ok |-> FALSE, page |-> NoPage]

\* what page.goto does in a run
RunResponses ==
  {RejectedResponse, [threw |-> FALSE, ok |-> FALSE, page |-> NoPage],
   [threw |-> FALSE, ok |-> TRUE, page |-> CodedPage],
   [threw |-> FALSE, ok |-> TRUE, page |-> NoRebatePage]}

\* the error of the combination just probed, if there was one
CombinationError(log, shown, fails) ==
  IF log[Len(log)].threw THEN <<"navigation">>
  ELSE IF shown = NoPage THEN <<"status">>
  ELSE IF fails THEN <<"extraction">>
  ELSE <<>>

\* page.goto settles and the rest of testBatteryPageUrl runs
ProbeSettles ==
  /\ rpc = "probing"
  /\ TestCombination(IF thisPage = "open" THEN RunResponses ELSE {RejectedResponse})
  /\ combinationErrors' = combinationErrors \o CombinationError(gotoLog', extPage', extFails')
  /\ inFlight' = inFlight \ MainOps
  /\ rpc' = "process"
  /\ UNCHANGED <<thisBrowser, thisPage, hpc, summary, scrapeError, exitCode, discoveryOps>>
  /\ UNCHANGED runGhosts

\* how the attempts of one appendBatteryRecord call end in a run
RunOutcomeLists == {[a \in 1..MaxAppendAttempts |-> "ok"],
                    [a \in 1..MaxAppendAttempts |-> "error"]}

\* the write loop calls appendBatteryRecord, which awaits writeRecords
WriteAwaits ==
  /\ rpc = "process"
  /\ ppc = "save"
  /\ RecordsToWrite # <<>>
  /\ rpc' = "writing"
  /\ UNCHANGED <<thisBrowser, thisPage, inFlight, hpc, summary, scrapeError, exitCode,
                 combinationErrors, discoveryOps>>
  /\ UNCHANGED runGhosts
  /\ UNCHANGED <<scraperVars, discVars>>

\* the writes settle and the loop body runs to its end
RunSaveCombination ==
  /\ \/ rpc = "writing"
     \/ rpc = "process" /\ RecordsToWrite = <<>>
  /\ SaveCombination(RunOutcomeLists)
  /\ rpc' = "process"
  /\ UNCHANGED <<thisBrowser, thisPage, inFlight, hpc, summary, scrapeError, exitCode,
                 combinationErrors, discoveryOps>>
  /\ UNCHANGED runGhosts

\* processValidCombinations returns
ProcessingReturns ==
  /\ rpc = "process"
  /\ ppc = "done"
  /\ rpc' = "finalize"
  /\ UNCHANGED <<thisBrowser, thisPage, inFlight, hpc, summary, scrapeError, exitCode,
                 combinationErrors, discoveryOps>>
  /\ UNCHANGED <<scraperVars, discVars>>
  /\ UNCHANGED runGhosts

\* processValidCombinations throws
ProcessingThrows ==
  /\ rpc = "process"
  /\ ppc = "failed"
  /\ Caught("Processing failed")
  /\ UNCHANGED <<thisBrowser, thisPage, inFlight, hpc, exitCode, combinationErrors,
                 discoveryOps>>
  /\ UNCHANGED <<scraperVars, discVars>>
  /\ UNCHANGED runGhosts

\* finalizeCSV and the summary fields set after it
FinalizeCSV ==
  /\ rpc = "finalize"
  /\ \E outcome \in {"ok", "statFails"} :
       IF outcome = "ok"
         THEN /\ summary' = [summary EXCEPT
                               !.totalBatteriesFound = scrapedCount,
                               !.totalCombinations = processedCombinations,
                               !.successfulCombinations = successfulCombinations,
                               !.failedCombinations =
                                  processedCombinations - successfulCombinations,
                               !.success = TRUE]
              /\ rpc' = "finally"
              /\ UNCHANGED scrapeError
         ELSE Caught("Failed to finalize CSV file")
  /\ UNCHANGED <<thisBrowser, thisPage, inFlight, hpc, exitCode, combinationErrors,
                 discoveryOps>>
  /\ UNCHANGED <<scraperVars, discVars>>
  /\ finalized' = TRUE
  /\ UNCHANGED <<probedAfterSignal, displayed, exitBy, browserCloseCalled>>

\* the finally of scrape calls closeBrowser
FinallyCloseBrowser ==
  /\ rpc = "finally"
  /\ rpc' = "closing"
  /\ inFlight' = CloseStarted(MainOp("close"))
  /\ thisPage' = Closing
  /\ UNCHANGED <<thisBrowser, hpc, summary, scrapeError, exitCode, combinationErrors,
                 discoveryOps>>
  /\ UNCHANGED <<scraperVars, discVars>>
  /\ UNCHANGED runGhosts

\* closeBrowser settles; scrape returns its summary or rethrows
ScrapeEnds ==
  /\ rpc = "closing"
  /\ \E outcome \in CloseOutcomes :
       \E closed \in {closeBrowser(outcome, MainOp("close") \in inFlight)} :
          /\ thisPage' = closed.page
          /\ thisBrowser' = closed.browser
          /\ browserCloseCalled' = (browserCloseCalled \/ closed.browserClose)
  /\ inFlight' = inFlight \ MainOps
  /\ rpc' = IF scrapeError = "" THEN "returned" ELSE "threw"
  /\ UNCHANGED <<hpc, summary, scrapeError, exitCode, combinationErrors, discoveryOps>>
  /\ UNCHANGED <<scraperVars, discVars>>
  /\ UNCHANGED <<finalized, probedAfterSignal, displayed, exitBy>>

\* main after scrape returned: displayFinalSummary, process.exit
MainExits ==
  /\ rpc = "returned"
  /\ exitCode' = ExitCodeOf(summary)
  /\ rpc' = "exited"
  /\ inFlight' = {}
  /\ UNCHANGED <<thisBrowser, thisPage, hpc, summary, scrapeError, combinationErrors,
                 discoveryOps>>
  /\ UNCHANGED <<scraperVars, discVars>>
  /\ displayed' = TRUE
  /\ exitBy' = "main"
  /\ UNCHANGED <<finalized, probedAfterSignal, browserCloseCalled>>

\* the catch of main: the error summary is displayed and closeBrowser called
MainCatches ==
  /\ rpc = "threw"
  /\ rpc' = "cleanup"
  /\ inFlight' = CloseStarted(MainOp("close"))
  /\ thisPage' = Closing
  /\ UNCHANGED <<thisBrowser, hpc, summary, scrapeError, exitCode, combinationErrors,
                 discoveryOps>>
  /\ UNCHANGED <<scraperVars, discVars>>
  /\ displayed' = TRUE
  /\ UNCHANGED <<finalized, probedAfterSignal, exitBy, browserCloseCalled>>

\* closeBrowser settles and main calls process.exit(1)
MainCatchExits ==
  /\ rpc = "cleanup"
  /\ \E outcome \in CloseOutcomes :
       \E closed \in {closeBrowser(outcome, MainOp("close") \in inFlight)} :
          /\ thisPage' = closed.page
          /\ thisBrowser' = closed.browser
          /\ browserCloseCalled' = (browserCloseCalled \/ closed.browserClose)
  /\ exitCode' = 1
  /\ rpc' = "exited"
  /\ inFlight' = {}
  /\ UNCHANGED <<hpc, summary, scrapeError, combinationErrors, discoveryOps>>
  /\ UNCHANGED <<scraperVars, discVars>>
  /\ exitBy' = "catch"
  /\ UNCHANGED <<finalized, probedAfterSignal, displayed>>

\* SIGINT, SIGTERM or SIGQUIT: cleanup runs up to the first await of closeBrowser
SignalArrives ==
  /\ rpc \notin {"idle", "exited"}
  /\ hpc = "none"
  /\ hpc' = "closing"
  /\ inFlight' = CloseStarted(SignalClose)
  /\ thisPage' = Closing
  /\ UNCHANGED <<rpc, thisBrowser, summary, scrapeError, exitCode, combinationErrors,
                 discoveryOps>>
  /\ UNCHANGED <<scraperVars, discVars>>
  /\ UNCHANGED runGhosts

\* the handler's closeBrowser settles
HandlerClosed ==
  /\ rpc # "exited"
  /\ hpc = "closing"
  /\ \E outcome \in CloseOutcomes :
       \E closed \in {closeBrowser(outcome, SignalClose \in inFlight)} :
          /\ thisPage' = closed.page
          /\ thisBrowser' = closed.browser
          /\ browserCloseCalled' = (browserCloseCalled \/ closed.browserClose)
  /\ inFlight' = inFlight \ {SignalClose}
  /\ hpc' = "closed"
  /\ UNCHANGED <<rpc, summary, scrapeError, exitCode, combinationErrors, discoveryOps>>
  /\ UNCHANGED <<scraperVars, discVars>>
  /\ UNCHANGED <<finalized, probedAfterSignal, displayed, exitBy>>

\* the handler calls process.exit(0)
HandlerExits ==
  /\ rpc # "exited"
  /\ hpc = "closed"
  /\ hpc' = "exited"
  /\ exitCode' = 0
  /\ rpc' = "exited"
  /\ inFlight' = {}
  /\ exitBy' = "signal"
  /\ csvRows' \in RowsAtExit
  /\ UNCHANGED <<thisBrowser, thisPage, summary, scrapeError, combinationErrors,
                 discoveryOps>>
  /\ UNCHANGED <<finalized, probedAfterSignal, displayed, browserCloseCalled>>
  /\ UNCHANGED <<dedupVars, extVars, procRest, fnVars, discVars>>

\* process.on('unhandledRejection') and process.on('uncaughtException'):
\* the error is logged and process.exit(1) called
UncaughtExit ==
  /\ rpc \notin {"idle", "exited"}
  /\ exitCode' = 1
  /\ rpc' = "exited"
  /\ inFlight' = {}
  /\ exitBy' = "uncaught"
  /\ csvRows' \in RowsAtExit
  /\ UNCHANGED <<thisBrowser, thisPage, hpc, summary, scrapeError, combinationErrors,
                 discoveryOps>>
  /\ UNCHANGED <<finalized, probedAfterSignal, displayed, browserCloseCalled>>
  /\ UNCHANGED <<dedupVars, extVars, procRest, fnVars, discVars>>

NextRun ==
  \/ InitializeBrowser \/ InitializeCSVExporter
  \/ DiscoveryAwaits \/ DiscoverySettles \/ DiscoveryReturns
  \/ RunEnterProcessing \/ ProbeAwaits \/ ProbeSettles
  \/ WriteAwaits \/ RunSaveCombination
  \/ ProcessingReturns \/ ProcessingThrows
  \/ FinalizeCSV \/ FinallyCloseBrowser \/ ScrapeEnds
  \/ MainExits \/ MainCatches \/ MainCatchExits
  \/ SignalArrives \/ HandlerClosed \/ HandlerExits \/ UncaughtExit

SpecRun == InitRun /\ [][NextRun]_vars

\* C15 - at most one page operation (navigation, selection, DOM evaluation,
\* page close) is in flight at any time of a run.
C15_OnePageOperationInFlight == Cardinality(inFlight) <= 1

\* the signal handler has called page.close() while the page.goto of a probe
\* is pending
C15_Witness ==
  /\ rpc = "probing"
  /\ inFlight = {MainOp("goto"), SignalClose}

\* C17 - when scrape returns its summary, every per-combination error that
\* occurred (failed navigation, non-OK response, extraction error) is in the
\* summary's errors list.
C17_CombinationErrorsInSummary ==
  rpc = "returned" => Len(summary.errors) >= Len(combinationErrors)

\* scrape has returned a summary with an empty errors list after a run in
\* which a navigation failed and another combination failed otherwise
C17_Witness ==
  /\ rpc = "returned"
  /\ summary.errors = <<>>
  /\ Len(combinationErrors) >= 2
  /\ \E k \in 1..Len(combinationErrors) : combinationErrors[k] = "navigation"
  /\ \E k \in 1..Len(combinationErrors) : combinationErrors[k] # "navigation"

(***************************************************************************)
(* The command line: parseArguments, applyConfigOverrides and main up to   *)
(* the start of the scrape                                                 *)
(***************************************************************************)
OptHelp == <<"-", "-", "h", "e", "l", "p">>

OptH == <<"-", "h">>

OptVerbose == <<"-", "-", "v", "e", "r", "b", "o", "s", "e">>

OptV == <<"-", "v">>

OptOutput == <<"-", "-", "o", "u", "t", "p", "u", "t">>

OptO == <<"-", "o">>

OptHeadless == <<"-", "-", "h", "e", "a", "d", "l", "e", "s", "s">>

OptTimeout == <<"-", "-", "t", "i", "m", "e", "o", "u", "t">>

\* the case labels of the switch in parseArguments
KnownOptions == {OptHelp, OptH, OptVerbose, OptV, OptOutput, OptO, OptHeadless,
                 OptTimeout}

DigitChars == <<"0", "1", "2", "3", "4", "5", "6", "7", "8", "9">>

DigitValue(c) == (CHOOSE i \in DOMAIN DigitChars : DigitChars[i] = c) - 1

\* the number of leading decimal digits of s
RECURSIVE DigitPrefix(_)
DigitPrefix(s) ==
  IF s # <<>> /\ IsDigit(Head(s)) THEN 1 + DigitPrefix(Tail(s)) ELSE 0

RECURSIVE DecimalValue(_, _)
DecimalValue(s, n) ==
  IF n = 0 THEN 0 ELSE 10 * DecimalValue(s, n - 1) + DigitValue(s[n])

\* parseInt(string) without a radix, for strings that do not begin with 0x:
\* leading white space is skipped, a sign is read, then the longest run of
\* decimal digits; NaN if there is none
ParseInt(s) ==
  LET t == TrimStart(s)
      signed == t # <<>> /\ Head(t) \in {"+", "-"}
      digits == IF signed THEN Tail(t) ELSE t
      n == DigitPrefix(digits)
  IN  IF n = 0 THEN [nan |-> TRUE, value |-> 0]
      ELSE [nan |-> FALSE,
            value |-> IF signed /\ Head(t) = "-"
                        THEN 0 - DecimalValue(digits, n)
                        ELSE DecimalValue(digits, n)]

\* arg.startsWith('-')
StartsWithHyphen(arg) == arg # <<>> /\ Head(arg) = "-"

\* default: if (arg.startsWith('-')) throw new Error(`Unknown option: ...`)
IsRejected(arg) == StartsWithHyphen(arg)

Thrown(message) == [threw |-> TRUE, error |-> message, options |-> DefaultOptions]

\* the for loop of parseArguments from args[i] on (i counts from 1)
RECURSIVE ParseFrom(_, _, _)
ParseFrom(args, i, opts) ==
  IF i > Len(args) THEN [threw |-> FALSE, error |-> "", options |-> opts]
  ELSE IF args[i] \in {OptHelp, OptH}
    THEN ParseFrom(args, i + 1, [opts EXCEPT !.showHelp = TRUE])
  ELSE IF args[i] \in {OptVerbose, OptV}
    THEN ParseFrom(args, i + 1, [opts EXCEPT !.verbose = TRUE])
  ELSE IF args[i] \in {OptOutput, OptO}
    THEN IF i + 1 <= Len(args)
           THEN ParseFrom(args, i + 2, [opts EXCEPT !.outputFile = args[i + 1]])
           ELSE Thrown("--output requires a filename argument")
  ELSE IF args[i] = OptHeadless
    THEN IF i + 1 <= Len(args)
           THEN ParseFrom(args, i + 2,
                  [opts EXCEPT !.headless =
                     ToLowerCase(args[i + 1]) \in {<<"t", "r", "u", "e">>, <<"1">>}])
           ELSE Thrown("--headless requires a boolean argument (true/false)")
  ELSE IF args[i] = OptTimeout
    THEN IF i + 1 <= Len(args)
           THEN IF ParseInt(args[i + 1]).nan \/ ParseInt(args[i + 1]).value <= 0
                  THEN Thrown("--timeout requires a positive number in milliseconds")
                  ELSE ParseFrom(args, i + 2,
                         [opts EXCEPT !.timeout = ParseInt(args[i + 1]).value])
           ELSE Thrown("--timeout requires a number argument")
  ELSE IF IsRejected(args[i])
    THEN Thrown("Unknown option")
  ELSE ParseFrom(args, i + 1, opts)

parseArguments(args) == ParseFrom(args, 1, DefaultOptions)

\* config after applyConfigOverrides(opts)
applyConfigOverrides(cfg, opts) ==
  [cfg EXCEPT !.level = IF opts.verbose THEN "debug" ELSE @,
              !.csvFileName = IF opts.outputFile # <<>> THEN opts.outputFile ELSE @,
              !.headless = opts.headless,
              !.navigation = IF opts.timeout # 0 THEN opts.timeout ELSE @]

\* the timeout option of the page.goto of testBatteryPageUrl
ProbeTimeout == 10000

\* the arguments a command line of the model is made of
MaxArgs == 3

ArgPool ==
  KnownOptions \cup {<<"-", "-", "b", "o", "g", "u", "s">>, <<"o", "u", "t", ".", "c", "s", "v">>, <<"6", "0", "0", "0", "0">>, <<"0">>, <<"9", "0", "s">>, <<"T", "R", "U", "E">>}

CommandLines == UNION {[1..n -> ArgPool] : n \in 0..MaxArgs}

InitArgs ==
  /\ argv \in CommandLines
  /\ apc = "main"
  /\ ArgsFields
  /\ ModesIdle
  /\ KeysIdle /\ UrlIdle
  /\ DedupIdle /\ DiscoveryIdle /\ ExtractIdle /\ ProcessIdle /\ RunIdle
  /\ LibIdle

ArgsOthers == <<dedupVars, discVars, extVars, procVars, runVars, keyVars, urlVars,
                modeVars, libVars>>

\* const options = parseArguments(args)
ParseArguments ==
  /\ apc = "main"
  /\ \E parsed \in {parseArguments(argv)} :
       /\ parsedOptions' = parsed.options
       /\ parseError' = parsed.error
       /\ apc' = IF parsed.threw THEN "threw" ELSE "parsed"
  /\ UNCHANGED <<argv, cliExitCode, config, navLog>>
  /\ UNCHANGED ArgsOthers

\* if (options.showHelp) { displayHelp(); process.exit(0) }
ShowHelp ==
  /\ apc = "parsed"
  /\ parsedOptions.showHelp
  /\ cliExitCode' = 0
  /\ apc' = "exited"
  /\ UNCHANGED <<argv, parsedOptions, parseError, config, navLog>>
  /\ UNCHANGED ArgsOthers

\* applyConfigOverrides(options); the scraper is made and scrape is called
ApplyConfigOverrides ==
  /\ apc = "parsed"
  /\ ~parsedOptions.showHelp
  /\ config' = applyConfigOverrides(config, parsedOptions)
  /\ apc' = "scraping"
  /\ UNCHANGED <<argv, parsedOptions, parseError, cliExitCode, navLog>>
  /\ UNCHANGED ArgsOthers

\* the catch of main with scraper still null: the error summary is displayed
\* and process.exit(1) called
ParseErrorExits ==
  /\ apc = "threw"
  /\ cliExitCode' = 1
  /\ apc' = "exited"
  /\ UNCHANGED <<argv, parsedOptions, parseError, config, navLog>>
  /\ UNCHANGED ArgsOthers

\* navigateToMainPage: page.goto(config.baseUrl, { waitUntil: 'networkidle2' }),
\* no timeout option
NavigateToMainPage ==
  /\ apc = "scraping"
  /\ navLog = <<>>
  /\ navLog' = <<[kind |-> "landing", timeoutOption |-> FALSE, timeout |-> 0]>>
  /\ UNCHANGED <<argv, apc, parsedOptions, parseError, cliExitCode, config>>
  /\ UNCHANGED ArgsOthers

\* testBatteryPageUrl: page.goto(url, { waitUntil: 'networkidle2', timeout: 10000 })
ProbeNavigates ==
  /\ apc = "scraping"
  /\ Len(navLog) = 1
  /\ navLog' = Append(navLog, [kind |-> "probe", timeoutOption |-> TRUE,
                               timeout |-> ProbeTimeout])
  /\ UNCHANGED <<argv, apc, parsedOptions, parseError, cliExitCode, config>>
  /\ UNCHANGED ArgsOthers

NextArgs ==
  \/ ParseArguments \/ ShowHelp \/ ApplyConfigOverrides \/ ParseErrorExits
  \/ NavigateToMainPage \/ ProbeNavigates

SpecArgs == InitArgs /\ [][NextArgs]_vars

\* C29 - when --timeout was given, every page navigation the scraper makes,
\* the navigation to the landing page and each probe, is made with that
\* timeout.
C29_TimeoutOptionGovernsNavigations ==
  parsedOptions.timeout # 0 =>
    \A k \in 1..Len(navLog) : navLog[k].timeoutOption /\ navLog[k].timeout = parsedOptions.timeout

\* --timeout 60000 was given and stored in config, the landing page was
\* loaded with no timeout option and the probe with 10000
C29_Witness ==
  /\ argv = <<OptTimeout, <<"6", "0", "0", "0", "0">>>>
  /\ config.navigation = 60000
  /\ Len(navLog) = 2
  /\ ~navLog[1].timeoutOption
  /\ navLog[2].timeout = ProbeTimeout

\* an argument that begins with '-' and is no known option
UnknownFlags(args) ==
  {i \in 1..Len(args) : StartsWithHyphen(args[i]) /\ args[i] \notin KnownOptions}

\* C30 - when an argument of the command line is an unrecognized flag,
\* wherever it stands, parseArguments throws, no scrape is started and the
\* process exits with a non-zero code.
C30_UnknownFlagIsFatal ==
  (UnknownFlags(argv) # {} /\ apc # "main") =>
     /\ parseError # ""
     /\ apc \in {"threw", "exited"}
     /\ apc = "exited" => cliExitCode # 0

\* --output --bogus: the unknown flag was taken as the file name and the
\* scrape has started
C30_Witness ==
  /\ argv = <<OptOutput, <<"-", "-", "b", "o", "g", "u", "s">>>>
  /\ apc = "scraping"
  /\ parseError = ""
  /\ config.csvFileName = <<"-", "-", "b", "o", "g", "u", "s">>

(***************************************************************************)
(* DirectUrlScraper (README, lines 212-730) beside SmartUrlScraper         *)
(***************************************************************************)
\* DirectUrlScraper's urlify
DirectUrlify(text) ==
  StripEdgeHyphens(CollapseHyphens(SpacesToHyphens(RemoveNonSlug(ToLowerCase(text)))))

\* DirectUrlScraper.generateBatteryPageUrl
DirectGenerateBatteryPageUrl(vehicleType, brand, model, fuelType) ==
  BatteryBaseUrl \o DirectUrlify(vehicleType) \o <<"/">> \o DirectUrlify(brand)
    \o <<"/">> \o DirectUrlify(model) \o <<"/">> \o DirectUrlify(fuelType)

\* hasVoltage || hasAmpere || hasWarranty, on the text as it is written
DirectHasBatteryData(pageText) ==
  \/ Includes(pageText, <<"V", "o", "l", "t", "a", "g", "e", " ", "(", "V", ")">>)
  \/ Includes(pageText, <<"A", "m", "p", "h", "e", "r", "e", " ", "H", "o", "u", "r">>)
  \/ Includes(pageText, <<"A", "H">>)
  \/ Includes(pageText, <<"W", "a", "r", "r", "a", "n", "t", "y", " ", "(", "M", "o", "n", "t", "h", "s", ")">>)

\* Array.from(document.querySelectorAll('tr')).find(tr =>
\* tr.textContent.includes(label)), then querySelector('td') of that row and
\* its trimmed text. The first td of a row is its label cell when the label
\* cells are td elements, and its value cell when they are th elements.
DirectCell(rows, labelTag, label) ==
  LET found == {k \in 1..Len(rows) : Includes(RowText(rows[k]), label)}
  IN  IF found = {} \/ ~rows[Min(found)].hasTd THEN <<>>
      ELSE IF labelTag = "td" /\ rows[Min(found)].label # <<>>
        THEN Trim(rows[Min(found)].label)
        ELSE Trim(rows[Min(found)].value)

\* rebateText.match(/₹[\d,]+/), the match or ''
RECURSIVE DirectRebate(_)
DirectRebate(text) ==
  IF text = <<>> THEN <<>>
  ELSE IF Head(text) = Rupee /\ AmountLen(Tail(text)) > 0
    THEN SubSeq(text, 1, AmountLen(Tail(text)) + 1)
    ELSE DirectRebate(Tail(text))

\* the callback of page.evaluate in DirectUrlScraper.extractBatteryData
DirectExtractBatteryData(pg, labelTag, combo) ==
  IF ~DirectHasBatteryData(BodyText(pg)) THEN <<>>
  ELSE
    LET rows == AllRows(pg)
        voltage == DirectCell(rows, labelTag, <<"V", "o", "l", "t", "a", "g", "e", " ", "(", "V", ")">>)
        ampereHour == DirectCell(rows, labelTag, <<"R", "e", "f", ".", " ", "A", "m", "p", "h", "e", "r", "e", " ", "H", "o", "u", "r", " ", "(", "A", "H", ")">>)
        totalWarranty == DirectCell(rows, labelTag, <<"T", "o", "t", "a", "l", " ", "W", "a", "r", "r", "a", "n", "t", "y", " ", "(", "M", "o", "n", "t", "h", "s", ")">>)
        battery ==
          [vehicleType |-> combo.vehicleType,
           brand |-> combo.brand,
           model |-> combo.model,
           fuelType |-> combo.fuelType,
           batteryBrand |-> BrandAmaron,
           series |-> <<>>,
           itemCode |-> <<>>,
           batteryModel |->
             IF voltage # <<>> /\ ampereHour # <<>>
               THEN voltage \o <<"V", " ">> \o ampereHour \o <<"A", "H">>
               ELSE <<>>,
           dimensions |-> <<>>,
           voltage |-> voltage,
           ampereHour |-> ampereHour,
           cca |-> <<>>,
           totalWarranty |-> totalWarranty,
           freeWarranty |-> DirectCell(rows, labelTag, <<"F", "r", "e", "e", " ", "W", "a", "r", "r", "a", "n", "t", "y", " ", "(", "M", "o", "n", "t", "h", "s", ")">>),
           proRataWarranty |-> DirectCell(rows, labelTag, <<"P", "r", "o", "-", "r", "a", "t", "a", " ", "W", "a", "r", "r", "a", "n", "t", "y", " ", "(", "M", "o", "n", "t", "h", "s", ")">>),
           terminalLayoutImageUrl |-> pg.terminalImg,
           countryOfOrigin |-> <<>>,
           basePrice |-> <<>>,
           specialDiscount |-> <<>>,
           totalPrice |-> <<>>,
           rebate |-> DirectRebate(DirectCell(rows, labelTag,
                        <<"R", "e", "b", "a", "t", "e", " ", "o", "n", " ", "R", "e", "t", "u", "r", "n", " ", "o", "f", " ", "o", "l", "d", " ", "b", "a", "t", "t", "e", "r", "y">>))]
    IN  IF voltage # <<>> \/ ampereHour # <<>> \/ totalWarranty # <<>>
          THEN <<battery>> ELSE <<>>

\* the fields of a record that have a column in the file (csvHeaders)
SinkFields ==
  {"vehicleType", "brand", "model", "fuelType", "batteryBrand", "series",
   "itemCode", "batteryModel", "dimensions", "voltage", "ampereHour", "cca",
   "totalWarranty", "freeWarranty", "proRataWarranty", "terminalLayoutImageUrl",
   "countryOfOrigin", "basePrice", "specialDiscount", "totalPrice", "rebate"}

\* what the sink writes of a list of records
Columns(records) ==
  [k \in 1..Len(records) |-> [f \in SinkFields |-> records[k][f]]]

\* pages of rows only, and the two pages with an item code
ModePages ==
  {pg \in Pages : /\ pg.text = BrandText
                  /\ pg.titleCells = <<>>
                  /\ pg.priceElements = <<>>
                  /\ pg.terminalImg = <<>>}
    \cup {CodedPage, CodedPageOther}

InitModes ==
  /\ mpc = "start"
  /\ modeCombination \in Combinations
  /\ modePage \in ModePages
  /\ modeLabelTag \in {"th", "td"}
  /\ smartUrl = <<>>
  /\ directUrl = <<>>
  /\ smartRecords = <<>>
  /\ directRecords = <<>>
  /\ ArgsIdle
  /\ KeysIdle /\ UrlIdle
  /\ DedupIdle /\ DiscoveryIdle /\ ExtractIdle /\ ProcessIdle /\ RunIdle
  /\ LibIdle

ModesOthers == <<dedupVars, discVars, extVars, procVars, runVars, keyVars, urlVars,
                 argVars, libVars>>

\* both scrapers build the URL of the combination
GenerateUrls ==
  /\ mpc = "start"
  /\ smartUrl' = generateBatteryPageUrl(modeCombination.vehicleType,
                   modeCombination.brand, modeCombination.model,
                   modeCombination.fuelType)
  /\ directUrl' = DirectGenerateBatteryPageUrl(modeCombination.vehicleType,
                    modeCombination.brand, modeCombination.model,
                    modeCombination.fuelType)
  /\ mpc' = "urls"
  /\ UNCHANGED <<modeCombination, modePage, modeLabelTag, smartRecords, directRecords>>
  /\ UNCHANGED ModesOthers

\* SmartUrlScraper.extractBatteryData(combination) on the loaded page
SmartExtracts ==
  /\ mpc = "urls"
  /\ smartRecords' = extractBatteryData(modePage, modeCombination, FALSE)
  /\ mpc' = "smart"
  /\ UNCHANGED <<modeCombination, modePage, modeLabelTag, smartUrl, directUrl,
                 directRecords>>
  /\ UNCHANGED ModesOthers

\* DirectUrlScraper.extractBatteryData(combination) on the same page
DirectExtracts ==
  /\ mpc = "smart"
  /\ directRecords' = DirectExtractBatteryData(modePage, modeLabelTag, modeCombination)
  /\ mpc' = "done"
  /\ UNCHANGED <<modeCombination, modePage, modeLabelTag, smartUrl, directUrl,
                 smartRecords>>
  /\ UNCHANGED ModesOthers

NextModes == GenerateUrls \/ SmartExtracts \/ DirectExtracts

SpecModes == InitModes /\ [][NextModes]_vars

\* C28 - for the same combination and the same loaded page DirectUrlScraper
\* and SmartUrlScraper build the same URL and extract the same sequence of
\* records, compared on the fields the sink writes.
C28_BothModesSamePipeline ==
  /\ mpc \in {"urls", "smart", "done"} => smartUrl = directUrl
  /\ mpc = "done" => Columns(smartRecords) = Columns(directRecords)

\* one page with an item code, a voltage and an exchange value, label cells
\* th: the URLs and the voltage agree, SmartUrlScraper's record has the item
\* code and the rebate, DirectUrlScraper's has neither
C28_Witness ==
  /\ mpc = "done"
  /\ modePage = CodedPage
  /\ modeLabelTag = "th"
  /\ smartUrl = directUrl
  /\ Len(smartRecords) = 1
  /\ Len(directRecords) = 1
  /\ smartRecords[1].voltage = directRecords[1].voltage
  /\ smartRecords[1].itemCode # <<>>
  /\ directRecords[1].itemCode = <<>>
  /\ smartRecords[1].rebate # <<>>
  /\ directRecords[1].rebate = <<>>

(***************************************************************************)
(* Fatal errors, interruption and the exit of the process                  *)
(***************************************************************************)
\* initializeBrowser or initializeCSVExporter threw
InitFailed ==
  scrapeError \in {"Failed to initialize browser", "Failed to initialize CSV exporter"}

\* C21 - if launching the browser or initializing the CSV exporter fails,
\* scrape throws at once: discovery makes no page operation, no combination
\* is probed, and when scrape has thrown a browser that was launched has been
\* closed.
C21_InitFailureAbortsAndCloses ==
  InitFailed =>
    /\ discoveryOps = 0
    /\ gotoLog = <<>>
    /\ rpc = "threw" => (thisBrowser = "null" \/ browserCloseCalled)

\* the CSV exporter failed to start, page.close() rejected in closeBrowser,
\* and scrape has thrown with the browser open and browser.close() never called
C21_Witness ==
  /\ rpc = "threw"
  /\ scrapeError = "Failed to initialize CSV exporter"
  /\ hpc = "none"
  /\ thisBrowser = "open"
  /\ ~browserCloseCalled

\* C22 - when the signal handler ends the process, the browser has been
\* released and finalizeCSV has been called.
C22_SignalStopIsOrderly ==
  exitBy = "signal" => (finalized /\ (thisBrowser = "null" \/ browserCloseCalled))

\* the handler has ended a run that had written a row, and finalizeCSV was
\* never called
C22_Witness ==
  /\ exitBy = "signal"
  /\ csvRows # <<>>
  /\ ~finalized

\* C23 - after a signal has been received processValidCombinations starts no
\* new combination probe.
C23_NoProbeAfterSignal == ~probedAfterSignal

\* a probe has started while the handler was awaiting closeBrowser
C23_Witness ==
  /\ probedAfterSignal
  /\ hpc = "closing"
  /\ rpc = "probing"

\* C24 - when the signal handler ends the process, the file holds exactly
\* the rows of the records for which appendBatteryRecord completed.
C24_InterruptedFileHoldsAcceptedRows ==
  exitBy = "signal" => Len(csvRows) = recordCount

\* the handler has ended the process while writeRecords was in flight: the
\* row is in the file and appendBatteryRecord never completed
C24_Witness ==
  /\ exitBy = "signal"
  /\ Len(csvRows) = 1
  /\ recordCount = 0

\* C25 - main exits with code 0 when scrape returned its summary, even if
\* combinations failed, and with code 1 when scrape threw, as it does when
\* the browser or the CSV exporter fails to start; the handlers of unhandled
\* rejections and uncaught exceptions exit with code 1.
C25_ExitCodes ==
  /\ exitBy = "main" => (scrapeError = "" /\ exitCode = 0)
  /\ exitBy = "catch" => (scrapeError # "" /\ exitCode = 1)
  /\ (InitFailed /\ exitBy \in {"main", "catch"}) => exitCode = 1
  /\ exitBy = "uncaught" => exitCode = 1

\* main has exited with 0 after a run in which a combination failed
C25_Witness ==
  /\ exitBy = "main"
  /\ exitCode = 0
  /\ summary.failedCombinations > 0
  /\ combinationErrors # <<>>

\* C26 - on every exit path of a started run displayFinalSummary has been
\* called when the process exits.
C26_SummaryPrintedOnEveryExit == rpc = "exited" => displayed

\* the signal handler has ended the process and no summary was displayed
C26_Witness ==
  /\ rpc = "exited"
  /\ exitBy = "signal"
  /\ ~displayed

(***************************************************************************)
(* Discovery: failed navigations and the vehicle type on the page          *)
(***************************************************************************)
\* a page.goto to the landing page was rejected during discovery
NavigationFailed == \E k \in DOMAIN trace : IsNavigate(trace[k]) /\ ~trace[k].ok

\* C31 - once a navigation to the landing page has failed, at the start or
\* at a reset between brands, discoverValidCombinations has thrown,
\* this.validCombinations is empty whatever had been found, and
\* processValidCombinations is never called: nothing is probed or written.
C31_FailedNavigationEndsDiscovery ==
  NavigationFailed =>
    /\ dpc = "thrown"
    /\ thisValidCombinations = <<>>
    /\ ppc = "idle"
    /\ gotoLog = <<>>
    /\ csvRows = <<>>

\* the reset after a brand failed when combinations had been found
C31_Witness ==
  /\ NavigationFailed
  /\ dpc = "thrown"
  /\ validCombinations # <<>>
  /\ thisValidCombinations = <<>>
  /\ \E k \in DOMAIN trace : IsNavigate(trace[k]) /\ trace[k].ok

\* the vehicle type is selected on the page when event k is issued: since the
\* last navigation before k the last selection in the vehicle dropdown succeeded
VehicleSelectedBefore(k) ==
  \E j \in 1..(k - 1) :
    /\ IsSelect(trace[j], 1) /\ trace[j].ok
    /\ \A h \in (j + 1)..(k - 1) :
         /\ ~IsNavigate(trace[h])
         /\ ~(IsSelect(trace[h], 1))

\* a re-selection of the vehicle type (the selection after a reset) that failed
\* and was followed by the selection of a brand
BrandAfterFailedReselect(k) ==
  /\ k > 2
  /\ IsSelect(trace[k], 2)
  /\ IsSelect(trace[k - 1], 1) /\ ~trace[k - 1].ok
  /\ IsNavigate(trace[k - 2])

\* C33: every selection of a brand is attempted only while the vehicle type is
\* selected on the page; after a reset the vehicle type has been re-selected
\* successfully before the next brand is selected, and a failed re-selection
\* ends the brands of that vehicle type
C33_BrandOnlyUnderSelectedVehicle ==
  \A k \in DOMAIN trace :
    (IsSelect(trace[k], 2)) => VehicleSelectedBefore(k)

\* the re-selection after a reset failed and the next brand was selected all
\* the same
C33_Witness ==
  \E k \in DOMAIN trace : BrandAfterFailedReselect(k) /\ ~VehicleSelectedBefore(k)

(***************************************************************************)
(* Processing: the identifiers remembered and the rows written             *)
(***************************************************************************)
\* the identifiers of the records that reached the sink: the call of
\* appendBatteryRecord succeeded, or a row of the record is in the file or on
\* its way to it
WrittenKeys ==
  {createBatteryIdentifier(b) : b \in SavedRecords}
    \cup {createBatteryIdentifier(csvRows[k]) : k \in 1..Len(csvRows)}
    \cup {createBatteryIdentifier(pendingWrites[k]) : k \in 1..Len(pendingWrites)}

\* C32 - every identifier in seenBatteries belongs to a record that was
\* written to the sink: a record whose write failed is not remembered as seen,
\* so a later record with the same identifier is written and not dropped as a
\* duplicate.
C32_SeenKeysWereWritten ==
  BetweenCombinations => seenBatteries \subseteq WrittenKeys

\* the only write of a record failed, and the same record from the next
\* combination was dropped as a duplicate: the file has no row of it
C32_Witness ==
  /\ ppc = "done"
  /\ FailedCalls = {1}
  /\ Len(writeOutcomes) = 1
  /\ duplicateCount = 1
  /\ csvRows = <<>> /\ pendingWrites = <<>>
  /\ seenBatteries # {}
  /\ WrittenKeys = {}

\* const delay = 1000 * Math.pow(2, attempt - 1)
AppendRetryDelay == 1000

\* the delays appendBatteryRecord waits in a call whose attempts end as
\* outcomes: one after every failed attempt but the last
AppendDelays(outcomes) ==
  [attempt \in 1..(appendBatteryRecord(outcomes).attempts - 1) |->
     AppendRetryDelay * 2 ^ (attempt - 1)]

\* C39 - appendBatteryRecord makes at most 3 write attempts and waits 1 s and
\* then 2 s between them; recordCount grows by one for every call that returns
\* and by nothing for a call that throws; and the record of a call is in the
\* file at most once, also when an attempt timed out and was retried.
C39_AppendWritesRecordAtMostOnce ==
  /\ \A k \in 1..Len(writeOutcomes) :
       /\ appendBatteryRecord(writeOutcomes[k]).attempts <= MaxAppendAttempts
       /\ \E d \in {AppendDelays(writeOutcomes[k])} :
            /\ Len(d) <= 2
            /\ Len(d) >= 1 => d[1] = 1000
            /\ Len(d) >= 2 => d[2] = 2000
  /\ recordCount = Len(writeOutcomes) - Cardinality(FailedCalls)
  /\ \A k \in 1..Len(appendLog) : Cardinality(RowsOf(appendLog[k].battery)) <= 1

\* the first attempt of a call timed out, the second one wrote the row, and
\* the write of the first attempt completed later: two rows of one record
C39_Witness ==
  \E k \in 1..Len(writeOutcomes) :
    /\ writeOutcomes[k][1] = "timeout"
    /\ writeOutcomes[k][2] = "ok"
    /\ AppendDelays(writeOutcomes[k]) = <<1000>>
    /\ recordCount = Len(writeOutcomes) - Cardinality(FailedCalls)
    /\ Cardinality(RowsOf(appendLog[k].battery)) = 2

(***************************************************************************)
(* The browser after closeBrowser                                          *)
(***************************************************************************)
\* scrape has returned or thrown, and no signal handler has run
ScrapeSettled == rpc \in {"returned", "threw"} /\ hpc = "none"

\* C34 - scrape calls closeBrowser before it returns or throws, and after
\* closeBrowser has returned the page and the browser have been closed and
\* this.page and this.browser are null, also when closing the page failed.
C34_CloseBrowserReleasesPageAndBrowser ==
  ScrapeSettled =>
    /\ thisPage = "null"
    /\ thisBrowser = "null"

\* a run that succeeded: page.close() rejected in the closeBrowser of the
\* finally block, and scrape returned with this.page and this.browser set and
\* browser.close() never called
C34_Witness ==
  /\ rpc = "returned"
  /\ hpc = "none"
  /\ summary.success
  /\ thisPage # "null"
  /\ thisBrowser = "open"
  /\ ~browserCloseCalled

(***************************************************************************)
(* The counters of a run and the summary                                   *)
(***************************************************************************)
\* the fields scrape sets in its summary after finalizeCSV, from the counters
\* as processValidCombinations left them
SummaryCounts ==
  [totalBatteriesFound |-> scrapedCount,
   totalCombinations |-> processedCombinations,
   successfulCombinations |-> successfulCombinations,
   failedCombinations |-> processedCombinations - successfulCombinations]

\* processValidCombinations has returned and no write is still running
ProcessingSettled == ppc = "done" /\ pendingWrites = <<>>

\* the counters of the scraper and of the exporter between two steps
CountersInOrder ==
  /\ successfulCombinations <= processedCombinations
  /\ processedCombinations <= Len(thisValidCombinations)
  /\ scrapedCount = recordCount

\* C40 - successfulCombinations <= processedCombinations <= the number of
\* valid combinations and scrapedCount equals the exporter's recordCount; in
\* the summary failedCombinations = totalCombinations - successfulCombinations
\* and totalBatteriesFound is the number of rows written.
C40_CountersAndSummaryAgree ==
  /\ CountersInOrder
  /\ ProcessingSettled =>
       /\ SummaryCounts.failedCombinations =
            SummaryCounts.totalCombinations - SummaryCounts.successfulCombinations
       /\ SummaryCounts.totalBatteriesFound = Len(csvRows)

\* processing is over with the counters in order, one record counted and two
\* rows of it in the file
C40_Witness ==
  /\ ProcessingSettled
  /\ CountersInOrder
  /\ SummaryCounts.totalBatteriesFound = 1
  /\ Len(csvRows) = 2
  /\ csvRows[1] = csvRows[2]

(***************************************************************************)
(* cleanData on raw texts                                                  *)
(***************************************************************************)
MaxCleanInput == 4

\* the characters of the raw texts: whitespace, the two separators, a letter
CleanAlphabet == {" ", "\n", "-", ":", "A"}

CleanInputs == UNION {[1..n -> CleanAlphabet] : n \in 0..MaxCleanInput}

InitClean ==
  /\ cleanPc = "raw"
  /\ rawValue \in CleanInputs
  /\ cleanedValue = <<>>
  /\ CoreIdle
  /\ RetryIdle /\ WaitIdle /\ ExporterIdle

\* const cleanedBattery = cleanData(battery), for a record with the raw text
\* in one of its fields
CleanData ==
  /\ cleanPc = "raw"
  /\ cleanedValue' = cleanData([voltage |-> rawValue]).voltage
  /\ cleanPc' = "cleaned"
  /\ UNCHANGED rawValue
  /\ UNCHANGED <<coreVars, retryVars, waitVars, exporterVars>>

NextClean == CleanData

SpecClean == InitClean /\ [][NextClean]_vars

IsSeparator(c) == c \in {"-", ":"}

\* no run of two or more whitespace characters, none at either end
WhitespaceCollapsed(s) ==
  /\ \A k \in 1..(Len(s) - 1) : ~(IsSpace(s[k]) /\ IsSpace(s[k + 1]))
  /\ s # <<>> => (~IsSpace(s[1]) /\ ~IsSpace(s[Len(s)]))

\* no separator at either end
NoOuterSeparator(s) ==
  s # <<>> => (~IsSeparator(s[1]) /\ ~IsSeparator(s[Len(s)]))

\* C35 - every string field of an emitted record is whitespace-collapsed and
\* carries no leading or trailing separator ('-' or ':'), whatever the raw
\* text was.
C35_CleanedFieldsAreTidy ==
  cleanPc = "cleaned" =>
    (WhitespaceCollapsed(cleanedValue) /\ NoOuterSeparator(cleanedValue))

\* the raw text '--A' is cleaned to '-A'
C35_Witness ==
  /\ cleanPc = "cleaned"
  /\ rawValue = <<"-", "-", "A">>
  /\ cleanedValue = <<"-", "A">>
  /\ WhitespaceCollapsed(cleanedValue)

(***************************************************************************)
(* executeWithRetry                                                        *)
(***************************************************************************)
MaxRetryOption == 3

\* the options of a call: maxRetries from 0 on, with and without backoff
RetryOptionSets ==
  [maxRetries : 0..MaxRetryOption, retryDelay : {500, 1000},
   backoffMultiplier : {1, 2, 3}]

\* how a call of fn ends: it returns, or it throws an error that
\* retryCondition accepts or one that it rejects
FnOutcomes == {"ok", "retryable", "rejected"}

\* const currentDelay = retryDelay * Math.pow(backoffMultiplier, attempt - 1)
CurrentDelay(o, k) == o.retryDelay * o.backoffMultiplier ^ (k - 1)

\* the catch block of attempt k for an error of fn: what is thrown, or "" when
\* the loop goes on
RetryThrows(o, k, outcome) ==
  IF outcome = "rejected" \/ k = o.maxRetries
    THEN IF k = o.maxRetries THEN "failed after maxRetries attempts"
                             ELSE "original error"
    ELSE ""

InitRetry ==
  /\ retryPc = "loop"
  /\ retryOptions \in RetryOptionSets
  /\ retryAttempt = 1
  /\ fnLog = <<>>
  /\ retryDelays = <<>>
  /\ retryResult = "none"
  /\ CoreIdle
  /\ CleanIdle /\ WaitIdle /\ ExporterIdle

\* one pass of the loop body up to the return, the throw or the delay
RetryCallsFn ==
  /\ retryPc = "loop"
  /\ retryAttempt <= retryOptions.maxRetries
  /\ \E outcome \in FnOutcomes :
       /\ fnLog' = Append(fnLog, outcome)
       /\ IF outcome = "ok"
            THEN /\ retryPc' = "returned"
                 /\ retryResult' = "result of fn"
                 /\ UNCHANGED retryDelays
            ELSE \E thrown \in {RetryThrows(retryOptions, retryAttempt, outcome)} :
                   IF thrown # ""
                     THEN /\ retryPc' = "threw"
                          /\ retryResult' = thrown
                          /\ UNCHANGED retryDelays
                     ELSE /\ retryPc' = "delay"
                          /\ retryDelays' =
                               Append(retryDelays, CurrentDelay(retryOptions, retryAttempt))
                          /\ UNCHANGED retryResult
  /\ UNCHANGED <<retryOptions, retryAttempt>>
  /\ UNCHANGED <<coreVars, cleanVars, waitVars, exporterVars>>

\* await delay(currentDelay) settles; attempt++
RetryDelayElapses ==
  /\ retryPc = "delay"
  /\ retryAttempt' = retryAttempt + 1
  /\ retryPc' = "loop"
  /\ UNCHANGED <<retryOptions, fnLog, retryDelays, retryResult>>
  /\ UNCHANGED <<coreVars, cleanVars, waitVars, exporterVars>>

\* the loop condition attempt <= maxRetries is false: the function ends
\* without a return statement
RetryLoopEnds ==
  /\ retryPc = "loop"
  /\ retryAttempt > retryOptions.maxRetries
  /\ retryPc' = "returned"
  /\ retryResult' = "undefined"
  /\ UNCHANGED <<retryOptions, retryAttempt, fnLog, retryDelays>>
  /\ UNCHANGED <<coreVars, cleanVars, waitVars, exporterVars>>

NextRetry == RetryCallsFn \/ RetryDelayElapses \/ RetryLoopEnds

SpecRetry == InitRetry /\ [][NextRetry]_vars

\* fn is called at most maxRetries times and never again after it returned
CallsBounded ==
  /\ Len(fnLog) <= retryOptions.maxRetries
  /\ \A k \in 1..(Len(fnLog) - 1) : fnLog[k] # "ok"

\* the k-th delay is retryDelay * backoffMultiplier^(k-1), one between each
\* two calls of fn
DelaysBackOff ==
  /\ \A k \in 1..Len(retryDelays) :
       retryDelays[k] = retryOptions.retryDelay * retryOptions.backoffMultiplier ^ (k - 1)
  /\ retryPc \in {"delay", "loop"} => Len(retryDelays) = Len(fnLog)
  /\ retryPc \in {"returned", "threw"} => Len(retryDelays) = Max(Len(fnLog) - 1, 0)

\* what is thrown: the original error when retryCondition rejected it before
\* the last attempt, the wrapped error after the last attempt
ThrowsAsDescribed ==
  retryPc = "threw" =>
    /\ fnLog # <<>> /\ fnLog[Len(fnLog)] # "ok"
    /\ IF Len(fnLog) = retryOptions.maxRetries
         THEN retryResult = "failed after maxRetries attempts"
         ELSE retryResult = "original error" /\ fnLog[Len(fnLog)] = "rejected"

\* C36 - executeWithRetry calls fn at most maxRetries times, returns the
\* result of the first successful call, rethrows a rejected error at once,
\* waits retryDelay * backoffMultiplier^(k-1) after attempt k, throws after the
\* last failed attempt, and never returns without a result of fn or an error.
C36_RetryReturnsResultOrThrows ==
  /\ CallsBounded
  /\ DelaysBackOff
  /\ ThrowsAsDescribed
  /\ retryPc = "returned" =>
       (retryResult = "result of fn" /\ fnLog # <<>> /\ fnLog[Len(fnLog)] = "ok")

\* with maxRetries: 0 the call returns undefined and fn was never called
C36_Witness ==
  /\ retryPc = "returned"
  /\ retryOptions.maxRetries = 0
  /\ fnLog = <<>>
  /\ retryResult = "undefined"

(***************************************************************************)
(* waitForElement                                                          *)
(***************************************************************************)
MaxRetriesOption == 2

MaxSelectors == 2

\* const maxRetries = options.retries || 2
WaitMaxRetries(input) == IF input.retries = 0 THEN 2 ELSE input.retries

\* selector.includes(',')
IsSelectorList(input) == input.selectors > 1

\* how waitForSelector and page.$ end for a selector: the element is found;
\* the wait fails (timeout of the selector, page closed, page.$ gives null);
\* or the error message holds 'Navigation timeout' or 'Page crashed'
WaitOutcomes == {"found", "failed", "Navigation timeout", "Page crashed"}

WaitEntry(phase, index, outcome) == [phase |-> phase, index |-> index, outcome |-> outcome]

\* the catch block of attempt k for an outcome other than found: where the
\* call goes
AfterFailedAttempt(input, k, outcome) ==
  IF outcome \in {"Navigation timeout", "Page crashed"}
    THEN [pc |-> "threw", result |-> outcome]
  ELSE IF k = WaitMaxRetries(input)
    THEN IF IsSelectorList(input)
           THEN [pc |-> "alternatives", result |-> "none"]
           ELSE [pc |-> "threw", result |-> "Element not found"]
  ELSE [pc |-> "delay", result |-> "none"]

InitWait ==
  /\ waitPc = "attempt"
  /\ waitInput \in [retries : 0..MaxRetriesOption, selectors : 1..MaxSelectors]
  /\ waitAttempt = 1
  /\ altIndex = 0
  /\ waitLog = <<>>
  /\ waitDelays = <<>>
  /\ waitResult = "none"
  /\ CoreIdle
  /\ CleanIdle /\ RetryIdle /\ ExporterIdle

\* one pass of the outer loop body: waitForSelector(selector), page.$(selector)
WaitAttempt ==
  /\ waitPc = "attempt"
  /\ waitAttempt <= WaitMaxRetries(waitInput)
  /\ \E outcome \in WaitOutcomes :
       /\ waitLog' = Append(waitLog, WaitEntry("attempt", 0, outcome))
       /\ IF outcome = "found"
            THEN /\ waitPc' = "returned"
                 /\ waitResult' = "element"
                 /\ UNCHANGED <<altIndex, waitDelays>>
            ELSE \E next \in {AfterFailedAttempt(waitInput, waitAttempt, outcome)} :
                   /\ waitPc' = next.pc
                   /\ waitResult' = next.result
                   /\ altIndex' = IF next.pc = "alternatives" THEN 1 ELSE altIndex
                   /\ waitDelays' = IF next.pc = "delay"
                                      THEN Append(waitDelays, 1000 * waitAttempt)
                                      ELSE waitDelays
  /\ UNCHANGED <<waitInput, waitAttempt>>
  /\ UNCHANGED <<coreVars, cleanVars, retryVars, exporterVars>>

\* await delay(1000 * attempt) settles; attempt++
WaitDelayElapses ==
  /\ waitPc = "delay"
  /\ waitAttempt' = waitAttempt + 1
  /\ waitPc' = "attempt"
  /\ UNCHANGED <<waitInput, altIndex, waitLog, waitDelays, waitResult>>
  /\ UNCHANGED <<coreVars, cleanVars, retryVars, exporterVars>>

\* one pass of the inner loop: waitForSelector(altSelector), page.$(altSelector);
\* catch (altError) { continue }
WaitAlternative ==
  /\ waitPc = "alternatives"
  /\ altIndex <= waitInput.selectors
  /\ \E outcome \in WaitOutcomes :
       /\ waitLog' = Append(waitLog, WaitEntry("alternative", altIndex, outcome))
       /\ IF outcome = "found"
            THEN /\ waitPc' = "returned"
                 /\ waitResult' = "element"
                 /\ UNCHANGED altIndex
            ELSE /\ altIndex' = altIndex + 1
                 /\ UNCHANGED <<waitPc, waitResult>>
  /\ UNCHANGED <<waitInput, waitAttempt, waitDelays>>
  /\ UNCHANGED <<coreVars, cleanVars, retryVars, exporterVars>>

\* the inner loop is over: throw new Error('Element not found after ...')
WaitAlternativesFail ==
  /\ waitPc = "alternatives"
  /\ altIndex > waitInput.selectors
  /\ waitPc' = "threw"
  /\ waitResult' = "Element not found"
  /\ UNCHANGED <<waitInput, waitAttempt, altIndex, waitLog, waitDelays>>
  /\ UNCHANGED <<coreVars, cleanVars, retryVars, exporterVars>>

NextWait == WaitAttempt \/ WaitDelayElapses \/ WaitAlternative \/ WaitAlternativesFail

SpecWait == InitWait /\ [][NextWait]_vars

AttemptsOf == {k \in 1..Len(waitLog) : waitLog[k].phase = "attempt"}

AlternativesOf == {k \in 1..Len(waitLog) : waitLog[k].phase = "alternative"}

\* the selector is tried at most maxRetries times, and the alternatives after
\* the last attempt, each once and in list order
BoundedAndInOrder ==
  /\ Cardinality(AttemptsOf) <= WaitMaxRetries(waitInput)
  /\ AlternativesOf # {} =>
       /\ IsSelectorList(waitInput)
       /\ Cardinality(AttemptsOf) = WaitMaxRetries(waitInput)
  /\ \A k \in AlternativesOf :
       /\ k > Cardinality(AttemptsOf)
       /\ waitLog[k].index = k - Cardinality(AttemptsOf)
       /\ waitLog[k].index <= waitInput.selectors

\* the element returned is the first one found, and 'Element not found' is
\* thrown only when the attempts and the alternatives have all failed
FirstFoundOrAllFailed ==
  /\ \A k \in 1..(Len(waitLog) - 1) : waitLog[k].outcome # "found"
  /\ waitPc = "returned" => (waitLog # <<>> /\ waitLog[Len(waitLog)].outcome = "found")
  /\ (waitPc = "threw" /\ waitResult = "Element not found") =>
       /\ Cardinality(AttemptsOf) = WaitMaxRetries(waitInput)
       /\ IsSelectorList(waitInput) => Cardinality(AlternativesOf) = waitInput.selectors

\* a navigation timeout or a page crash at step k ended the call with that error
RaisedAtOnce(k) ==
  waitLog[k].outcome \in {"Navigation timeout", "Page crashed"} =>
    /\ k = Len(waitLog)
    /\ waitPc = "threw"
    /\ waitResult = waitLog[k].outcome

\* C37 - waitForElement retries a failing selector at most options.retries
\* (default 2) times, then tries the alternatives of a selector list in order
\* and returns the first one found; it throws only when all of them fail,
\* except that a navigation timeout or a page crash is raised at once, with no
\* further attempt and no further alternative.
C37_WaitRetriesThenAlternatives ==
  /\ BoundedAndInOrder
  /\ FirstFoundOrAllFailed
  /\ \A k \in 1..Len(waitLog) : RaisedAtOnce(k)

\* the first alternative ended in a navigation timeout and the call returned
\* the element of the second one
C37_Witness ==
  /\ waitPc = "returned"
  /\ waitInput.selectors = 2
  /\ \E k \in AlternativesOf :
       /\ waitLog[k].index = 1
       /\ waitLog[k].outcome = "Navigation timeout"
  /\ waitLog[Len(waitLog)] = WaitEntry("alternative", 2, "found")

(***************************************************************************)
(* The CSVExporter on its own                                              *)
(***************************************************************************)
\* const maxRetries = 3 of initializeCSV
MaxInitAttempts == 3

MaxInitCalls == 2

MaxExporterCalls == 2

\* the fields of the exporter that its methods assign
Exporter ==
  [isInitialized |-> isInitialized, csvWriter |-> csvWriter, filePath |-> filePath,
   recordCount |-> recordCount]

\* the record handed to appendBatteryRecord
ExporterRecord == KeyRecord(<<"A", "-", "1">>, <<"X">>, <<"1", "2">>, <<"3", "5">>, <<"K">>)

\* a pre-validation that looks at the writer only
AppendPreValidation_WriterOnly(initialized, writer) ==
  IF writer = "null" THEN "CSV writer is not available" ELSE ""

\* the pre-validation of appendBatteryRecord: the error thrown, "" for none
AppendPreValidation(initialized, writer) ==
  IF ~initialized THEN "CSV exporter not initialized"
  ELSE IF writer = "null" THEN "CSV writer is not available"
  ELSE ""

\* appendBatteryRecord on exporter e, its write attempts ending as outcomes
AppendToExporter(e, outcomes) ==
  IF AppendPreValidation(e.isInitialized, e.csvWriter) # ""
       \/ appendBatteryRecord(outcomes).threw
    THEN [threw |-> TRUE, exporter |-> e]
    ELSE [threw |-> FALSE, exporter |-> [e EXCEPT !.recordCount = @ + 1]]

\* finalizeCSV on exporter e: it assigns no field
finalizeCSV(e, statOk) ==
  [threw |-> ~e.isInitialized \/ ~statOk, exporter |-> e]

\* the catch block of attempt k of initializeCSV
InitCatch(e, k) ==
  [exporter |-> [e EXCEPT !.isInitialized = FALSE, !.csvWriter = "null",
                          !.filePath = "null"],
   pc |-> IF k = MaxInitAttempts THEN "idle" ELSE "delay",
   threw |-> k = MaxInitAttempts]

\* the variables of the proc group that the exporter does not hold
exporterOthers ==
  <<dedupVars, discVars, extVars, runVars, keyVars, urlVars, argVars, modeVars,
    cleanVars, retryVars, waitVars,
    ppc, scrapedCount, processedCombinations, successfulCombinations, duplicateCount,
    yields, writeFailures, pendingWrites, appendLog, gotoLog, writeFaults,
    writeOutcomes, delayLog>>

InitExporter == ExporterIdle /\ CoreIdle /\ CleanIdle /\ RetryIdle /\ WaitIdle

\* an attempt of initializeCSV fails: the fields are reset, and the call
\* throws after the last attempt or waits before the next one
InitAttemptFails ==
  \E caught \in {InitCatch(Exporter, initAttempt)} :
    /\ isInitialized' = caught.exporter.isInitialized
    /\ csvWriter' = caught.exporter.csvWriter
    /\ filePath' = caught.exporter.filePath
    /\ expPc' = caught.pc
    /\ lastInit' = IF caught.threw THEN "threw" ELSE lastInit
    /\ UNCHANGED <<recordCount, csvRows, initAttempt, initCalls, everInitialized, callLog>>

\* initializeCSV is called: the first attempt awaits ensureOutputDirectory
InitializeCSVCalled ==
  /\ expPc = "idle"
  /\ initCalls < MaxInitCalls
  /\ initCalls' = initCalls + 1
  /\ initAttempt' = 1
  /\ expPc' = "ensureDirectory"
  /\ lastInit' = "running"
  /\ UNCHANGED <<isInitialized, csvWriter, filePath, recordCount, csvRows,
                 everInitialized, callLog>>
  /\ UNCHANGED exporterOthers

\* ensureOutputDirectory settles; this.filePath = path.join(...); await fs.access
InitEnsuresDirectory ==
  /\ expPc = "ensureDirectory"
  /\ \E ok \in BOOLEAN :
       IF ok
         THEN /\ filePath' = "path"
              /\ expPc' = "access"
              /\ UNCHANGED <<isInitialized, csvWriter, recordCount, csvRows, initAttempt,
                             initCalls, lastInit, everInitialized, callLog>>
         ELSE InitAttemptFails
  /\ UNCHANGED exporterOthers

\* fs.access settles; the header configuration; this.csvWriter =
\* createCsvWriter(...); await fs.writeFile
InitCreatesWriter ==
  /\ expPc = "access"
  /\ \E ok \in BOOLEAN :
       IF ok
         THEN /\ csvWriter' = "writer"
              /\ expPc' = "writeFile"
              /\ UNCHANGED <<isInitialized, filePath, recordCount, csvRows, initAttempt,
                             initCalls, lastInit, everInitialized, callLog>>
         ELSE InitAttemptFails
  /\ UNCHANGED exporterOthers

\* fs.writeFile(this.filePath, '') settles; this.isInitialized = true;
\* this.recordCount = 0; return true
InitWritesFile ==
  /\ expPc = "writeFile"
  /\ \E ok \in BOOLEAN :
       IF ok
         THEN /\ csvRows' = <<>>
              /\ isInitialized' = TRUE
              /\ recordCount' = 0
              /\ expPc' = "idle"
              /\ lastInit' = "returned"
              /\ everInitialized' = TRUE
              /\ UNCHANGED <<csvWriter, filePath, initAttempt, initCalls, callLog>>
         ELSE InitAttemptFails
  /\ UNCHANGED exporterOthers

\* the delay before the next attempt settles; attempt++
InitRetries ==
  /\ expPc = "delay"
  /\ initAttempt' = initAttempt + 1
  /\ expPc' = "ensureDirectory"
  /\ UNCHANGED <<isInitialized, csvWriter, filePath, recordCount, csvRows, initCalls,
                 lastInit, everInitialized, callLog>>
  /\ UNCHANGED exporterOthers

\* a call of appendBatteryRecord, at any point of the exporter's life
AppendBatteryRecord ==
  /\ Len(callLog) < MaxExporterCalls
  /\ \E outcomes \in RunOutcomeLists :
       \E r \in {AppendToExporter(Exporter, outcomes)} :
          /\ recordCount' = r.exporter.recordCount
          /\ csvRows' = IF r.threw THEN csvRows ELSE Append(csvRows, ExporterRecord)
          /\ callLog' = Append(callLog,
                          [op |-> "appendBatteryRecord", threw |-> r.threw,
                           afterInit |-> everInitialized,
                           before |-> Exporter, after |-> r.exporter])
  /\ UNCHANGED <<expPc, isInitialized, csvWriter, filePath, initAttempt, initCalls,
                 lastInit, everInitialized>>
  /\ UNCHANGED exporterOthers

\* a call of finalizeCSV, at any point of the exporter's life
FinalizeCSVCalled ==
  /\ Len(callLog) < MaxExporterCalls
  /\ \E statOk \in BOOLEAN :
       \E r \in {finalizeCSV(Exporter, statOk)} :
          callLog' = Append(callLog,
                      [op |-> "finalizeCSV", threw |-> r.threw,
                       afterInit |-> everInitialized,
                       before |-> Exporter, after |-> r.exporter])
  /\ UNCHANGED <<expPc, isInitialized, csvWriter, filePath, initAttempt, initCalls,
                 lastInit, everInitialized, recordCount, csvRows>>
  /\ UNCHANGED exporterOthers

NextExporter ==
  \/ InitializeCSVCalled \/ InitEnsuresDirectory \/ InitCreatesWriter \/ InitWritesFile
  \/ InitRetries \/ AppendBatteryRecord \/ FinalizeCSVCalled

SpecExporter == InitExporter /\ [][NextExporter]_vars

\* C38 - in every state isInitialized implies that csvWriter and filePath are
\* set; appendBatteryRecord and finalizeCSV called before an initializeCSV
\* has succeeded throw and leave every field of the exporter as it was; and
\* after initializeCSV has failed on all 3 attempts isInitialized is false and
\* csvWriter and filePath are null.
C38_ExporterLifecycle ==
  /\ isInitialized => (csvWriter # "null" /\ filePath # "null")
  /\ \A k \in 1..Len(callLog) :
       ~callLog[k].afterInit =>
         (callLog[k].threw /\ callLog[k].after = callLog[k].before)
  /\ (expPc = "idle" /\ lastInit = "threw") =>
       /\ initAttempt = MaxInitAttempts
       /\ ~isInitialized /\ csvWriter = "null" /\ filePath = "null"

\* appendBatteryRecord was called while the first initializeCSV stood at its
\* writeFile, with the writer made, and finalizeCSV after the third attempt
\* had failed: both threw
C38_Witness ==
  /\ expPc = "idle" /\ lastInit = "threw" /\ ~everInitialized
  /\ Len(callLog) = 2
  /\ callLog[1].op = "appendBatteryRecord" /\ callLog[1].threw
  /\ callLog[1].before.csvWriter = "writer"
  /\ callLog[2].op = "finalizeCSV" /\ callLog[2].threw
  /\ callLog[2].before.filePath = "null"

=============================================================================
